---------------------------- MODULE Spec2Model ----------------------------
(***************************************************************************)
(* Checkpoint / recovery protocol of the batch processors                  *)
(* (bulletproof_gemini_processor.py, large_batch_processor.py).            *)
(*                                                                         *)
(* A report id is modelled as the sequence of its text tokens: the prefix  *)
(* "Report_" is one token, every other character is a token of its own.    *)
(* A spreadsheet cell that pandas reads back as float NaN is <<"NaN">>.    *)
(***************************************************************************)
EXTENDS Integers, Sequences, FiniteSets, TLC

VARIABLES
    total_reports,      \* len(pd.read_excel(excel_file)): rows of the catalog
    bad_rows,           \* catalog rows whose report_name / sql_query is 'nan'
    master_file,        \* MASTER_BULLETPROOF_RESULTS.xlsx
    temp_file,          \* MASTER_BULLETPROOF_RESULTS_temp.xlsx
    state_file,         \* BULLETPROOF_STATE.json
    state_temp,         \* BULLETPROOF_STATE_temp.json exists
    processed_reports,  \* BulletproofProcessor.processed_reports
    all_results,        \* BulletproofProcessor.all_results
    failed_reports,     \* BulletproofProcessor.failed_reports
    interrupted,        \* .interrupted
    missing_numbers,    \* the work queue of the run
    idx,                \* 1-based position in the work queue (i + 1)
    pc,                 \* position of the process
    ret,                \* caller of the save routine in progress
    run,                \* number of runs started
    calls,              \* work items handed to call_gemini_api in this run, in order
    attempted,          \* work items the loop has picked up in this run, in order
    succeeded,          \* work items whose result was appended in this run
    budget,             \* remaining injected faults
    script,             \* scripted outcomes of the external service
    last_save,          \* outcome of the save routine that ended in the last step
    exit_status,        \* how the last process ended
    prev,               \* what the previous process left behind, taken when a run starts
    store_at_entry,     \* the master file when the save routine in progress was entered
    resolved,           \* result of the gap resolver applied to free inputs
    new_results,        \* process_large_batch: results of this batch
    all_existing_results, \* process_large_batch: rows loaded as the baseline
    failed,             \* process_large_batch: failures of this batch
    checkpoint_count,   \* process_large_batch: checkpoints taken
    emergency_backups,  \* files written by emergency_save, in order of their names
    same_second,        \* datetime.now() still shows the second of the latest emergency_save
    suspended,          \* flushes a signal handler interrupted, innermost last
    paced,              \* time.sleep ran since the last external call of the run
    clock,              \* time.time() in milliseconds
    last_request_time,  \* OptimizedGeminiProcessor.last_request_time
    rate_limiter_lock,  \* holder of rate_limiter_lock, 0 when free
    wpc,                \* position of each worker thread of the pool
    wait_until,         \* end of the time.sleep of the lock holder
    tasks_left,         \* rows not yet handed to a worker
    started,            \* external calls started by the pool
    last_start,         \* start time of the latest external call of the pool
    start_gap,          \* time between the two latest call starts
    pass_gap,           \* time between the two latest values of last_request_time
    ticks,              \* remaining steps of time passing on its own
    ranges,             \* the text returned by _format_ranges
    log,                \* gemini_business_context.log: the outcome lines, oldest first
    output_files,       \* workbooks written by GeminiBusinessContextGenerator.save_results
    start_from_report,  \* process_reports(start_from_report=...)
    gen_results,        \* .results of the generator (sequential or worker pool)
    progress_files,     \* the workbooks found by glob, in the order they are read
    master_results_file, \* MASTER_RESULTS.xlsx of BulletproofRecovery
    merged,             \* the merged result list
    procs,              \* the processes that share MASTER_BULLETPROOF_RESULTS.xlsx
    futures             \* future_to_report: the state of the future of each row

catalogVars == <<total_reports, bad_rows>>
diskVars    == <<master_file, temp_file, state_file, state_temp>>
memVars     == <<processed_reports, all_results, failed_reports, interrupted>>
loopVars    == <<missing_numbers, idx>>
histVars    == <<calls, attempted, succeeded>>
snapVars    == <<prev, store_at_entry>>
lbVars      == <<new_results, all_existing_results, failed, checkpoint_count,
                 emergency_backups, same_second>>
poolVars    == <<clock, last_request_time, rate_limiter_lock, wpc, wait_until,
                 tasks_left, started, last_start, start_gap, pass_gap, ticks>>
extVars     == <<log, output_files, start_from_report, gen_results, progress_files,
                 master_results_file, merged, procs, futures>>
vars == <<extVars, catalogVars, diskVars, memVars, loopVars, histVars, snapVars,
          pc, ret, run, budget, script, last_save, exit_status, resolved, lbVars,
          suspended, paced, poolVars, ranges>>

-----------------------------------------------------------------------------
(* Bounds *)
CatalogSize == 7
MaxBadRows  == 1
MaxRuns     == 2
MaxFaults   == 2
MaxGapCatalog == 3

(* Program constants *)
save_frequency == 5

max_workers == 5

\* 1.0 / (60 / max_workers) seconds, in whole milliseconds
rate_limit_interval == (1000 * max_workers) \div 60

Workers == 1..max_workers

\* the worker pool is not running
PoolIdle ==
    /\ clock = 0
    /\ last_request_time = 0
    /\ rate_limiter_lock = 0
    /\ wpc = [w \in Workers |-> "done"]
    /\ wait_until = 0
    /\ tasks_left = 0
    /\ started = 0
    /\ last_start = -1
    /\ start_gap = -1
    /\ pass_gap = -1
    /\ ticks = 0

\* the sequential generator, the merge scripts, the processes sharing the
\* master file and the collecting loop of the pool are not running
ExtIdle ==
    /\ log = <<>>
    /\ output_files = <<>>
    /\ start_from_report = 1
    /\ gen_results = <<>>
    /\ progress_files = <<>>
    /\ master_results_file = [exists |-> FALSE, readable |-> FALSE, rows |-> <<>>]
    /\ merged = <<>>
    /\ procs = <<>>
    /\ futures = <<>>

-----------------------------------------------------------------------------
(* Text of report ids *)

DigitTokens == <<"0", "1", "2", "3", "4", "5", "6", "7", "8", "9">>

IsDigit(t) == \E d \in 1..10 : DigitTokens[d] = t

DigitValue(t) == (CHOOSE d \in 1..10 : DigitTokens[d] = t) - 1

RECURSIVE Str(_)
\* str(n) of a non-negative integer, as used by the f-string
Str(n) == IF n < 10 THEN <<DigitTokens[n + 1]>>
          ELSE Str(n \div 10) \o <<DigitTokens[(n % 10) + 1]>>

\* f"Report_{report_num}"
ReportId(report_num) == <<"Report_">> \o Str(report_num)

NaN == <<"NaN">>

\* report_id.replace('Report_', ''): every occurrence is removed; a float has no replace
Replace(report_id) == SelectSeq(report_id, LAMBDA t : t # "Report_")

RECURSIVE DecimalValue(_)
DecimalValue(ds) == IF ds = <<>> THEN 0
                    ELSE 10 * DecimalValue(SubSeq(ds, 1, Len(ds) - 1)) + DigitValue(ds[Len(ds)])

AllDigits(ds) == ds # <<>> /\ \A k \in 1..Len(ds) : IsDigit(ds[k])

\* int(text): [ok |-> FALSE] stands for ValueError
PyInt(text) ==
    IF AllDigits(text) THEN [ok |-> TRUE, value |-> DecimalValue(text)]
    ELSE IF text # <<>> /\ Head(text) = "-" /\ AllDigits(Tail(text))
         THEN [ok |-> TRUE, value |-> 0 - DecimalValue(Tail(text))]
         ELSE [ok |-> FALSE, value |-> 0]

\* a parse that does not strip the prefix
ParseNumberNoStrip(report_id) ==
    IF report_id = NaN THEN [ok |-> FALSE, value |-> 0]
    ELSE PyInt(report_id)

\* try: int(report_id.replace('Report_', '')) except: continue
ParseNumber(report_id) ==
    IF report_id = NaN THEN [ok |-> FALSE, value |-> 0]
    ELSE PyInt(Replace(report_id))

RECURSIVE SortedBetween(_, _, _)
\* the members of S from lo to hi in ascending order
SortedBetween(S, lo, hi) ==
    IF lo > hi THEN <<>>
    ELSE IF lo = hi THEN (IF lo \in S THEN <<lo>> ELSE <<>>)
    ELSE LET mid == (lo + hi) \div 2
         IN SortedBetween(S, lo, mid) \o SortedBetween(S, mid + 1, hi)

\* sorted(set of integers)
Sorted(S) == IF S = {} THEN <<>>
             ELSE LET lo == CHOOSE x \in S : \A y \in S : x <= y
                      hi == CHOOSE x \in S : \A y \in S : y <= x
                  IN SortedBetween(S, lo, hi)

Range(s) == {s[k] : k \in 1..Len(s)}

-----------------------------------------------------------------------------
(* Gap resolver *)

\* a resolver that also counts the keys of the loaded failures as done
ProcessedNumbersCountingFailures(processed) ==
    {ParseNumber(r).value :
        r \in {q \in processed \cup {failed_reports[k].report_id : k \in 1..Len(failed_reports)} :
                  ParseNumber(q).ok}}

\* the numbers of the processed ids that parse
ProcessedNumbers(processed) ==
    {ParseNumber(r).value : r \in {q \in processed : ParseNumber(q).ok}}

MissingNumbersIgnoringProcessed(total, processed) ==
    [ok |-> total # 0, value |-> Sorted(1..total)]

\* identify_missing_reports / get_current_status: ok = FALSE is the
\* ZeroDivisionError of the completion percentage on an empty catalog
MissingNumbers(total, processed) ==
    [ok    |-> total # 0,
     value |-> Sorted((1..total) \ ProcessedNumbers(processed))]

-----------------------------------------------------------------------------
(* Files *)

NoFile == [exists |-> FALSE, readable |-> FALSE, results |-> <<>>, failed |-> <<>>]

\* a workbook with the sheets Business_Context_Results and Failed_Reports
Workbook(results, failures) ==
    [exists |-> TRUE, readable |-> TRUE, results |-> results, failed |-> failures]

\* a file that was opened for writing and not completed
PartialFile == [exists |-> TRUE, readable |-> FALSE, results |-> <<>>, failed |-> <<>>]

NoState == [exists |-> FALSE, processed |-> {}, failed |-> <<>>]

StateDoc(processed, failures) ==
    [exists |-> TRUE, processed |-> processed, failed |-> failures]

FailureRecord(report_id, error) == [report_id |-> report_id, error |-> error]

-----------------------------------------------------------------------------
(* save_all_progress: sort key and sort *)

\* extract_number: try int(...) except: return 0
extract_number(result) ==
    IF ParseNumber(result).ok THEN ParseNumber(result).value ELSE 0

RECURSIVE InsertByNumber(_, _)
\* position of r after every element whose number is not larger (stable)
InsertByNumber(s, r) ==
    IF s = <<>> THEN <<r>>
    ELSE IF extract_number(s[Len(s)]) <= extract_number(r) THEN Append(s, r)
         ELSE Append(InsertByNumber(SubSeq(s, 1, Len(s) - 1), r), s[Len(s)])

RECURSIVE SortByNumber(_)
\* self.all_results.sort(key=extract_number)
SortByNumber(s) ==
    IF s = <<>> THEN <<>>
    ELSE InsertByNumber(SortByNumber(SubSeq(s, 1, Len(s) - 1)), s[Len(s)])

-----------------------------------------------------------------------------
(* The external service and the injected faults *)

FreeScript == [free |-> TRUE, fail |-> <<>>]

\* may the external call for report_num end with this outcome
Allowed(outcome, report_num) ==
    IF script.free THEN outcome = "success" \/ budget > 0
    ELSE (outcome # "success") <=>
            (run <= Len(script.fail) /\ report_num \in script.fail[run])

Spend(outcome) == IF script.free /\ outcome # "success" THEN budget - 1 ELSE budget

\* how the step for one item can end: the call succeeds, the call fails, an
\* exception is raised before the result is appended, or (not in a scripted
\* run) after it
ServiceOutcomes ==
    {"success", "api_fail", "exception"}
        \cup (IF script.free THEN {"late_exception"} ELSE {})

\* a step of the save routine may fail when a fault is left
StepOutcomes == IF budget > 0 THEN {TRUE, FALSE} ELSE {TRUE}

SpendStep(ok) == IF ok THEN budget ELSE budget - 1

-----------------------------------------------------------------------------
(* BulletproofProcessor *)

\* BulletproofProcessor.__init__ and the start of main
BP_Start ==
    /\ pc = "idle"
    /\ run < MaxRuns
    /\ run' = run + 1
    /\ processed_reports' = {}
    /\ all_results' = <<>>
    /\ failed_reports' = <<>>
    /\ interrupted' = FALSE
    /\ paced' = FALSE
    /\ missing_numbers' = <<>>
    /\ idx' = 1
    /\ calls' = <<>>
    /\ attempted' = <<>>
    /\ succeeded' = {}
    /\ pc' = "load"
    /\ ret' = "none"
    /\ last_save' = "none"
    /\ exit_status' = "running"
    /\ prev' = [status      |-> exit_status,
                results     |-> Range(all_results),
                failed      |-> Range(failed_reports),
                call_failed |-> Range(calls) \ succeeded,
                master      |-> master_file,
                state       |-> state_file]
    /\ UNCHANGED <<extVars, catalogVars, diskVars, budget, script,
                   resolved, ranges, suspended, poolVars, lbVars, store_at_entry>>

\* a load that takes nothing from the master file
LoadedRowsNone(file) == <<>>

\* rows of the master file whose report_id is truthy
LoadedRows(file) ==
    IF file.exists /\ file.readable
    THEN SelectSeq(file.results, LAMBDA r : r # <<>>)
    ELSE <<>>

\* a load that takes the completed keys from the state file
BP_LoadFromStateFile ==
    /\ pc = "load"
    /\ all_results' = all_results \o LoadedRows(master_file)
    /\ processed_reports' = processed_reports \cup
                             (IF state_file.exists THEN state_file.processed ELSE {})
    /\ failed_reports' = IF state_file.exists THEN state_file.failed ELSE failed_reports
    /\ pc' = "identify"
    /\ last_save' = "none"
    /\ UNCHANGED <<extVars, catalogVars, diskVars, interrupted, loopVars, histVars,
                   ret, run, budget, script, exit_status,
                   resolved, ranges, suspended, paced, poolVars, lbVars, snapVars>>

\* load_existing_work: a master file that cannot be read is reported and skipped
BP_LoadExistingWork ==
    /\ pc = "load"
    /\ all_results' = all_results \o LoadedRows(master_file)
    /\ processed_reports' = processed_reports \cup Range(LoadedRows(master_file))
    /\ failed_reports' = IF state_file.exists THEN state_file.failed ELSE failed_reports
    /\ pc' = "identify"
    /\ last_save' = "none"
    /\ UNCHANGED <<extVars, catalogVars, diskVars, interrupted, loopVars, histVars,
                   ret, run, budget, script, exit_status,
                   resolved, ranges, suspended, paced, poolVars, lbVars, snapVars>>

\* main: identify_missing_reports, then either the save of a complete store,
\* the save of the except branch, or process_missing_reports
BP_IdentifyMissing ==
    /\ pc = "identify"
    /\ LET m == MissingNumbers(total_reports, processed_reports)
       IN IF ~m.ok
          THEN /\ pc' = "save_entry"
               /\ ret' = "error"
               /\ UNCHANGED missing_numbers
          ELSE /\ missing_numbers' = m.value
               /\ IF m.value = <<>>
                  THEN pc' = "save_entry" /\ ret' = "complete"
                  ELSE pc' = "setup" /\ ret' = ret
    /\ last_save' = "none"
    /\ UNCHANGED <<extVars, catalogVars, diskVars, memVars, idx, histVars,
                   run, budget, script, exit_status,
                   resolved, ranges, suspended, paced, poolVars, lbVars, snapVars>>

\* process_missing_reports up to the loop: setup_gemini_api / load_excel_data
\* may fail, the function then returns False without saving
BP_Setup ==
    /\ pc = "setup"
    /\ \E ok \in StepOutcomes :
          /\ budget' = SpendStep(ok)
          /\ IF ok
             THEN pc' = "loop" /\ exit_status' = exit_status
             ELSE pc' = "idle" /\ exit_status' = "returned_false"
    /\ idx' = 1
    /\ last_save' = "none"
    /\ UNCHANGED <<extVars, catalogVars, diskVars, memVars, missing_numbers, histVars,
                   ret, run, script, resolved, ranges, suspended, paced, poolVars, lbVars, snapVars>>

\* top of the per-item loop: the interrupted check, the end of the queue,
\* or the row of the next item with its essential-data check
BP_LoopTop ==
    /\ pc = "loop"
    /\ last_save' = "none"
    /\ IF interrupted \/ idx > Len(missing_numbers)
       THEN /\ pc' = "save_entry"
            /\ ret' = "final"
            /\ UNCHANGED <<memVars, idx, histVars, paced>>
       ELSE LET report_num == missing_numbers[idx]
            IN /\ attempted' = Append(attempted, report_num)
               /\ IF report_num \in bad_rows
                  THEN /\ failed_reports' = Append(failed_reports,
                              FailureRecord(ReportId(report_num), "Missing essential data"))
                       /\ idx' = idx + 1
                       /\ pc' = "loop"
                       /\ UNCHANGED <<calls, paced>>
                  ELSE /\ calls' = Append(calls, report_num)
                       /\ paced' = FALSE
                       /\ pc' = "call"
                       /\ UNCHANGED <<failed_reports, idx>>
               /\ UNCHANGED <<processed_reports, all_results, interrupted, succeeded, ret>>
    /\ UNCHANGED <<extVars, catalogVars, diskVars, missing_numbers, run, budget, script,
                   exit_status, resolved, ranges, suspended, poolVars, lbVars, snapVars>>

\* a handler that leaves the loop instead of continuing
OnExceptionBreak == "break"

\* except Exception: the failure is recorded, then continue
OnException == "continue"

\* if (i + 1) % self.save_frequency == 0: self.save_all_progress()
AfterRecord == IF idx % save_frequency = 0 THEN "save_entry" ELSE "sleep"

\* call_gemini_api returns: the result or the failure is recorded; an
\* exception inside the try block, before the result is appended or after it
\* (in one of the statements up to the end of the try block), is recorded and
\* the loop continues
BP_CallReturns ==
    /\ pc = "call"
    /\ last_save' = "none"
    /\ LET report_num == missing_numbers[idx]
           report_id == ReportId(report_num)
       IN \E outcome \in ServiceOutcomes :
          /\ Allowed(outcome, report_num)
          /\ budget' = Spend(outcome)
          /\ IF outcome \in {"success", "late_exception"}
             THEN /\ all_results' = Append(all_results, report_id)
                  /\ processed_reports' = processed_reports \cup {report_id}
                  /\ succeeded' = succeeded \cup {report_num}
             ELSE UNCHANGED <<all_results, processed_reports, succeeded>>
          /\ IF outcome = "success"
             THEN UNCHANGED failed_reports
             ELSE failed_reports' = Append(failed_reports,
                         FailureRecord(report_id,
                             IF outcome = "api_fail" THEN "API call failed"
                             ELSE "Unexpected error"))
          /\ IF outcome \in {"exception", "late_exception"}
             THEN IF OnException = "continue"
                  THEN pc' = "loop" /\ idx' = idx + 1 /\ ret' = ret
                  ELSE pc' = "save_entry" /\ idx' = idx /\ ret' = "final"
             ELSE /\ pc' = AfterRecord
                  /\ ret' = IF AfterRecord = "save_entry" THEN "periodic" ELSE ret
                  /\ idx' = idx
    /\ UNCHANGED <<extVars, catalogVars, diskVars, interrupted, missing_numbers, calls, attempted,
                   run, script, exit_status,
                   resolved, ranges, suspended, paced, poolVars, lbVars, snapVars>>

\* time.sleep(1.5) unless this was the last item, and the progress line
BP_RateLimit ==
    /\ pc = "sleep"
    /\ idx' = idx + 1
    /\ paced' = (idx < Len(missing_numbers) \/ paced)
    /\ pc' = "loop"
    /\ last_save' = "none"
    /\ UNCHANGED <<extVars, catalogVars, diskVars, memVars, missing_numbers, histVars,
                   ret, run, budget, script, exit_status,
                   resolved, ranges, suspended, poolVars, lbVars, snapVars>>

-----------------------------------------------------------------------------
(* save_all_progress, one action per step; ret names the caller *)

\* the save routine returns to its caller: the loop (periodic save), the end
\* of process_missing_reports and main, or the signal handler, which goes on
\* to its sys.exit(0)
SaveReturn(result) ==
    /\ last_save' = result
    /\ ret' = "none"
    /\ IF ret \in {"periodic", "handler"}
       THEN /\ pc' = IF ret = "periodic" THEN "sleep" ELSE "exit"
            /\ exit_status' = exit_status
       ELSE /\ pc' = "idle"
            /\ exit_status' = CASE ret = "final"    -> "returned_true"
                                [] ret = "complete" -> "complete"
                                [] OTHER            -> "error"

\* except branch: os.remove of both temp files
CleanUp == temp_file' = NoFile /\ state_temp' = FALSE

\* entry: nothing to save returns at once; otherwise the results are sorted
\* and the summary is built (reading the catalog, dividing by its length)
BP_SaveBegin ==
    /\ pc = "save_entry"
    /\ store_at_entry' = master_file
    /\ IF all_results = <<>>
       THEN /\ SaveReturn("skipped")
            /\ UNCHANGED <<all_results, diskVars, budget>>
       ELSE /\ all_results' = SortByNumber(all_results)
            /\ \E ok \in (IF total_reports = 0 THEN {FALSE} ELSE StepOutcomes) :
                  /\ budget' = IF total_reports = 0 THEN budget ELSE SpendStep(ok)
                  /\ IF ok
                     THEN /\ pc' = "save_open"
                          /\ last_save' = "none"
                          /\ UNCHANGED <<diskVars, ret, exit_status>>
                     ELSE /\ SaveReturn("failed_summary")
                          /\ CleanUp
                          /\ UNCHANGED <<master_file, state_file>>
    /\ UNCHANGED <<extVars, catalogVars, processed_reports, failed_reports, interrupted,
                   loopVars, histVars, run, script,
                   resolved, ranges, suspended, paced, poolVars, lbVars, prev>>

\* a variant that opens the canonical file itself for writing
BP_SaveOpenMaster ==
    /\ pc = "save_open"
    /\ master_file' = PartialFile
    /\ pc' = "save_write"
    /\ last_save' = "none"
    /\ UNCHANGED <<extVars, catalogVars, temp_file, state_file, state_temp, memVars, loopVars,
                   histVars, ret, run, budget, script, exit_status,
                   resolved, ranges, suspended, paced, poolVars, lbVars, snapVars>>

\* with pd.ExcelWriter(temp_file, ...): the temp file is created
BP_SaveOpenTemp ==
    /\ pc = "save_open"
    /\ temp_file' = PartialFile
    /\ pc' = "save_write"
    /\ last_save' = "none"
    /\ UNCHANGED <<extVars, catalogVars, master_file, state_file, state_temp, memVars, loopVars,
                   histVars, ret, run, budget, script, exit_status,
                   resolved, ranges, suspended, paced, poolVars, lbVars, snapVars>>

\* the sheets are written and the writer is closed
BP_SaveWriteTemp ==
    /\ pc = "save_write"
    /\ \E ok \in StepOutcomes :
          /\ budget' = SpendStep(ok)
          /\ IF ok
             THEN /\ temp_file' = Workbook(all_results, failed_reports)
                  /\ pc' = "save_rename"
                  /\ last_save' = "none"
                  /\ UNCHANGED <<state_temp, ret, exit_status>>
             ELSE /\ SaveReturn("failed_write")
                  /\ CleanUp
    /\ UNCHANGED <<extVars, catalogVars, master_file, state_file, memVars, loopVars,
                   histVars, run, script, resolved, ranges, suspended, paced, poolVars, lbVars, snapVars>>

\* os.rename(temp_file, self.master_file)
BP_SaveRename ==
    /\ pc = "save_rename"
    /\ \E ok \in StepOutcomes :
          /\ budget' = SpendStep(ok)
          /\ IF ok
             THEN /\ master_file' = temp_file
                  /\ temp_file' = NoFile
                  /\ pc' = "save_state"
                  /\ last_save' = "none"
                  /\ UNCHANGED <<state_temp, ret, exit_status>>
             ELSE /\ SaveReturn("failed_rename")
                  /\ CleanUp
                  /\ UNCHANGED master_file
    /\ UNCHANGED <<extVars, catalogVars, state_file, memVars, loopVars,
                   histVars, run, script, resolved, ranges, suspended, paced, poolVars, lbVars, snapVars>>

\* a state write whose failure puts the old master file back
BP_SaveStateRollback ==
    /\ pc = "save_state"
    /\ \E ok \in StepOutcomes :
          /\ budget' = SpendStep(ok)
          /\ IF ok
             THEN /\ state_file' = StateDoc(processed_reports, failed_reports)
                  /\ UNCHANGED master_file
                  /\ SaveReturn("ok")
                  /\ UNCHANGED <<temp_file, state_temp>>
             ELSE /\ SaveReturn("failed_state")
                  /\ CleanUp
                  /\ UNCHANGED state_file
                  /\ master_file' = store_at_entry
    /\ UNCHANGED <<extVars, catalogVars, memVars, loopVars,
                   histVars, run, script, resolved, ranges, suspended, paced, poolVars, lbVars, snapVars>>

\* the state file: json.dump to the temp state file, then os.rename
BP_SaveState ==
    /\ pc = "save_state"
    /\ \E ok \in StepOutcomes :
          /\ budget' = SpendStep(ok)
          /\ IF ok
             THEN /\ state_file' = StateDoc(processed_reports, failed_reports)
                  /\ SaveReturn("ok")
                  /\ UNCHANGED <<temp_file, state_temp>>
             ELSE /\ SaveReturn("failed_state")
                  /\ CleanUp
                  /\ UNCHANGED state_file
    /\ UNCHANGED <<extVars, catalogVars, master_file, memVars, loopVars,
                   histVars, run, script, resolved, ranges, suspended, paced, poolVars, lbVars, snapVars>>

-----------------------------------------------------------------------------
(* Signals and the environment *)

\* positions inside save_all_progress after its entry
FlushPcs == {"save_open", "save_write", "save_rename", "save_state"}

\* handle_interrupt: set the flag, run save_all_progress, sys.exit(0); the
\* handler runs on the main thread on top of whatever that thread was doing
\* (also on top of a save_all_progress in progress, of the loop or of an
\* earlier handler), and what it interrupted never resumes
BP_HandleInterrupt ==
    /\ pc # "idle"
    /\ script.free
    /\ budget > 0
    /\ budget' = budget - 1
    /\ interrupted' = TRUE
    /\ suspended' = IF pc \in FlushPcs
                    THEN Append(suspended, [pc |-> pc, ret |-> ret])
                    ELSE suspended
    /\ pc' = "save_entry"
    /\ ret' = "handler"
    /\ last_save' = "none"
    /\ UNCHANGED <<extVars, catalogVars, diskVars, processed_reports, all_results, failed_reports,
                   loopVars, histVars, run, script, exit_status, resolved, ranges, paced, poolVars,
                   lbVars, snapVars>>

\* an interrupted flush was at this position
SuspendedAt(position) == \E k \in 1..Len(suspended) : suspended[k].pc = position

\* sys.exit(0) of the handler: SystemExit unwinds the interrupted frames; the
\* with blocks of an interrupted flush close their files on the way out, which
\* may leave the temp file of the workbook or of the state behind
BP_Exit ==
    /\ pc = "exit"
    /\ pc' = "idle"
    /\ exit_status' = "interrupted"
    /\ suspended' = <<>>
    /\ temp_file' \in (IF SuspendedAt("save_write") THEN {temp_file, PartialFile}
                                                     ELSE {temp_file})
    /\ state_temp' \in (IF SuspendedAt("save_state") THEN {state_temp, TRUE}
                                                      ELSE {state_temp})
    /\ last_save' = "none"
    /\ UNCHANGED <<extVars, catalogVars, master_file, state_file, memVars, loopVars, histVars,
                   ret, run, budget, script, resolved, ranges, paced, poolVars, lbVars, snapVars>>

\* the process is killed or the machine stops: nothing more is written
EnvCrash ==
    /\ pc # "idle"
    /\ script.free
    /\ budget > 0
    /\ budget' = budget - 1
    /\ pc' = "idle"
    /\ ret' = "none"
    /\ exit_status' = "crashed"
    /\ suspended' = <<>>
    /\ last_save' = "none"
    /\ UNCHANGED <<extVars, catalogVars, diskVars, memVars, loopVars, histVars, run, script, resolved, ranges,
                   paced, poolVars, lbVars, snapVars>>

\* between two runs the master file becomes unreadable
EnvCorruptMaster ==
    /\ pc = "idle"
    /\ script.free
    /\ budget > 0
    /\ master_file.exists /\ master_file.readable
    /\ budget' = budget - 1
    /\ master_file' = [master_file EXCEPT !.readable = FALSE]
    /\ last_save' = "none"
    /\ UNCHANGED <<extVars, catalogVars, temp_file, state_file, state_temp, memVars, loopVars,
                   histVars, pc, ret, run, script, exit_status,
                   resolved, ranges, suspended, paced, poolVars, lbVars, snapVars>>

\* between two runs the state file is lost or replaced by one that does not
\* match the master file: an empty one, or one that lists every catalog key
EnvDamageState ==
    /\ pc = "idle"
    /\ script.free
    /\ budget > 0
    /\ run > 0
    /\ budget' = budget - 1
    /\ state_file' \in {NoState, StateDoc({}, <<>>),
                         StateDoc({ReportId(n) : n \in 1..total_reports}, <<>>)} \ {state_file}
    /\ last_save' = "none"
    /\ UNCHANGED <<extVars, catalogVars, master_file, temp_file, state_temp, memVars, loopVars,
                   histVars, pc, ret, run, script, exit_status, resolved, ranges, suspended, paced,
                   poolVars, lbVars, snapVars>>

-----------------------------------------------------------------------------
(* Specification of the BulletproofProcessor runs *)

Catalogs == {0, CatalogSize}

NoPrev == [status |-> "none", results |-> {}, failed |-> {}, call_failed |-> {},
             master |-> NoFile, state |-> NoState]

InitCommon ==
    /\ master_file = NoFile
    /\ temp_file = NoFile
    /\ state_file = NoState
    /\ state_temp = FALSE
    /\ processed_reports = {}
    /\ all_results = <<>>
    /\ failed_reports = <<>>
    /\ interrupted = FALSE
    /\ missing_numbers = <<>>
    /\ idx = 1
    /\ pc = "idle"
    /\ ret = "none"
    /\ run = 0
    /\ calls = <<>>
    /\ attempted = <<>>
    /\ succeeded = {}
    /\ last_save = "none"
    /\ exit_status = "none"
    /\ prev = NoPrev
    /\ store_at_entry = NoFile
    /\ resolved = [ok |-> TRUE, value |-> <<>>]
    /\ new_results = <<>>
    /\ all_existing_results = <<>>
    /\ failed = <<>>
    /\ checkpoint_count = 0
    /\ emergency_backups = <<>>
    /\ same_second = FALSE
    /\ ranges = <<>>
    /\ ExtIdle
    /\ suspended = <<>>
    /\ paced = FALSE
    /\ PoolIdle

Init ==
    /\ InitCommon
    /\ total_reports \in Catalogs
    /\ bad_rows \in {B \in SUBSET (1..total_reports) : Cardinality(B) <= MaxBadRows}
    /\ budget = MaxFaults
    /\ script = FreeScript

\* the steps of the program itself
NextRun ==
    \/ BP_Start
    \/ BP_LoadExistingWork
    \/ BP_IdentifyMissing
    \/ BP_Setup
    \/ BP_LoopTop
    \/ BP_CallReturns
    \/ BP_RateLimit
    \/ BP_SaveBegin
    \/ BP_SaveOpenTemp
    \/ BP_SaveWriteTemp
    \/ BP_SaveRename
    \/ BP_SaveState

Next ==
    \/ NextRun
    \/ BP_HandleInterrupt
    \/ BP_Exit
    \/ EnvCrash
    \/ EnvCorruptMaster
    \/ EnvDamageState

Spec == Init /\ [][Next]_vars

-----------------------------------------------------------------------------
(* LargeBatchProcessor *)

checkpoint_frequency == 10

batch_size == 100

\* s[:n]
Take(s, n) == SubSeq(s, 1, IF Len(s) < n THEN Len(s) ELSE n)

\* state_data of save_checkpoint: the ids of the rows written, no failures
LBStateDoc(results, checkpoint_num) ==
    [exists |-> TRUE, processed |-> Range(results), failed |-> <<>>,
     checkpoint |-> checkpoint_num]

\* emergency_save at a moment whose timestamp (datetime.now() formatted as
\* %Y%m%d_%H%M%S) is that of the latest backup (same) or a later one: the
\* files emergency_results_<timestamp>.* are opened for writing and hold
\* results_so_far; a failure inside is caught and reported
EmergencySaveAt(results_so_far, ok, same) ==
    IF ~ok
    THEN /\ emergency_backups' = emergency_backups
         /\ same_second' = same
    ELSE /\ emergency_backups' =
               IF same /\ emergency_backups # <<>>
               THEN [emergency_backups EXCEPT ![Len(emergency_backups)] =
                        [results |-> results_so_far, writes |-> @.writes + 1]]
               ELSE Append(emergency_backups, [results |-> results_so_far, writes |-> 1])
         /\ same_second' = TRUE

EmergencySave(results_so_far, ok) == EmergencySaveAt(results_so_far, ok, same_second)

\* LargeBatchProcessor.__init__ and the start of main
LB_Begin ==
    /\ pc = "idle"
    /\ interrupted' = FALSE
    /\ paced' = FALSE
    /\ missing_numbers' = <<>>
    /\ idx' = 1
    /\ new_results' = <<>>
    /\ all_existing_results' = <<>>
    /\ failed' = <<>>
    /\ checkpoint_count' = 0
    /\ same_second' \in {same_second, FALSE}
    /\ calls' = <<>>
    /\ attempted' = <<>>
    /\ succeeded' = {}
    /\ pc' = "lb_status"
    /\ ret' = "none"
    /\ last_save' = "none"
    /\ exit_status' = "running"
    /\ prev' = [status      |-> exit_status,
                results     |-> Range(all_existing_results \o new_results),
                failed      |-> Range(failed),
                call_failed |-> Range(calls) \ succeeded,
                master      |-> master_file,
                state       |-> state_file]
    /\ UNCHANGED <<extVars, catalogVars, diskVars, processed_reports, all_results, failed_reports,
                   budget, script,
                   resolved, ranges, suspended, poolVars, store_at_entry, emergency_backups>>

\* a run of the script, counted
LB_Start ==
    /\ run < MaxRuns
    /\ run' = run + 1
    /\ LB_Begin

\* the script is run again, any number of times
LB_StartAgain ==
    /\ run' = run
    /\ LB_Begin

\* main: get_current_status reads the master file without a try block (a file
\* that cannot be read, or a results sheet without rows and so without the
\* report_id column, raises), then the next batch is the first batch_size
\* missing numbers
LB_GetCurrentStatus ==
    /\ pc = "lb_status"
    /\ last_save' = "none"
    /\ IF master_file.exists /\ (~master_file.readable \/ master_file.results = <<>>)
       THEN /\ pc' = "idle"
            /\ exit_status' = "error"
            /\ UNCHANGED missing_numbers
       ELSE LET processed == IF master_file.exists THEN Range(master_file.results)
                                                       ELSE {}
                m == MissingNumbers(total_reports, processed)
            IN IF ~m.ok
               THEN /\ pc' = "idle"
                    /\ exit_status' = "error"
                    /\ UNCHANGED missing_numbers
               ELSE IF m.value = <<>>
                    THEN /\ pc' = "idle"
                         /\ exit_status' = "complete"
                         /\ UNCHANGED missing_numbers
                    ELSE /\ missing_numbers' = Take(m.value, batch_size)
                         /\ pc' = "lb_baseline"
                         /\ UNCHANGED exit_status
    /\ UNCHANGED <<extVars, catalogVars, diskVars, memVars, idx, histVars, snapVars, ret, run,
                   budget, script, resolved, ranges, suspended, paced, poolVars, lbVars>>

\* process_large_batch up to the loop: the baseline rows and the generator
LB_Baseline ==
    /\ pc = "lb_baseline"
    /\ IF master_file.exists /\ ~master_file.readable
       THEN /\ pc' = "idle"
            /\ exit_status' = "error"
            /\ UNCHANGED <<all_existing_results, budget>>
       ELSE /\ all_existing_results' = IF master_file.exists THEN master_file.results
                                                              ELSE <<>>
            /\ \E ok \in StepOutcomes :
                  /\ budget' = SpendStep(ok)
                  /\ IF ok
                     THEN pc' = "lb_loop" /\ exit_status' = exit_status
                     ELSE pc' = "idle" /\ exit_status' = "returned_false"
    /\ idx' = 1
    /\ last_save' = "none"
    /\ UNCHANGED <<extVars, catalogVars, diskVars, memVars, missing_numbers, histVars, snapVars,
                   ret, run, script,
                   resolved, ranges, suspended, paced, poolVars, new_results, failed, checkpoint_count,
                   emergency_backups, same_second>>

\* top of the loop: on the interrupted flag an emergency save and sys.exit(0);
\* at the end of the batch the final save; else the row of the next item
LB_LoopTop ==
    /\ pc = "lb_loop"
    /\ last_save' = "none"
    /\ IF interrupted
       THEN /\ \E ok \in StepOutcomes :
                  /\ budget' = SpendStep(ok)
                  /\ EmergencySave(new_results, ok)
            /\ pc' = "idle"
            /\ exit_status' = "interrupted"
            /\ UNCHANGED <<idx, histVars, ret, failed, paced>>
       ELSE IF idx > Len(missing_numbers)
       THEN /\ pc' = "lb_save_entry"
            /\ ret' = "final"
            /\ UNCHANGED <<idx, histVars, failed, budget, emergency_backups, same_second, exit_status,
                           paced>>
       ELSE LET report_num == missing_numbers[idx]
            IN /\ attempted' = Append(attempted, report_num)
               /\ IF report_num \in bad_rows
                  THEN /\ failed' = Append(failed,
                              FailureRecord(ReportId(report_num), "Missing data"))
                       /\ idx' = idx + 1
                       /\ pc' = "lb_loop"
                       /\ UNCHANGED <<calls, paced>>
                  ELSE /\ calls' = Append(calls, report_num)
                       /\ paced' = FALSE
                       /\ pc' = "lb_call"
                       /\ UNCHANGED <<failed, idx>>
               /\ UNCHANGED <<succeeded, ret, budget, emergency_backups, same_second, exit_status>>
    /\ UNCHANGED <<extVars, catalogVars, diskVars, memVars, missing_numbers, snapVars, run, script,
                   resolved, ranges, suspended, poolVars, new_results, all_existing_results, checkpoint_count>>

\* if len(new_results) > 0 and len(new_results) % self.checkpoint_frequency == 0
CheckpointDue(results) == Len(results) > 0 /\ Len(results) % checkpoint_frequency = 0

\* call_gemini_api returns, within the second in which it was called or later:
\* result or failure recorded, then the checkpoint test; an exception, raised
\* before or after the result is appended, is recorded with an emergency save
\* and the loop goes on
LB_CallReturns ==
    /\ pc = "lb_call"
    /\ last_save' = "none"
    /\ LET report_num == missing_numbers[idx]
           report_id == ReportId(report_num)
       IN \E outcome \in ServiceOutcomes, same \in {same_second, FALSE} :
          /\ Allowed(outcome, report_num)
          /\ budget' = Spend(outcome)
          /\ IF outcome \in {"success", "late_exception"}
             THEN /\ new_results' = Append(new_results, report_id)
                  /\ succeeded' = succeeded \cup {report_num}
             ELSE UNCHANGED <<new_results, succeeded>>
          /\ IF outcome = "success"
             THEN UNCHANGED failed
             ELSE failed' = Append(failed,
                         FailureRecord(report_id,
                             IF outcome = "api_fail" THEN "API failed" ELSE "exception"))
          /\ IF outcome \in {"exception", "late_exception"}
             THEN /\ EmergencySaveAt(new_results', TRUE, same)
                  /\ pc' = "lb_loop" /\ idx' = idx + 1
                  /\ UNCHANGED <<ret, checkpoint_count>>
             ELSE /\ same_second' = same
                  /\ UNCHANGED <<emergency_backups, idx>>
                  /\ IF CheckpointDue(new_results')
                     THEN /\ checkpoint_count' = checkpoint_count + 1
                          /\ pc' = "lb_save_entry"
                          /\ ret' = "periodic"
                     ELSE /\ pc' = "lb_sleep"
                          /\ UNCHANGED <<ret, checkpoint_count>>
    /\ UNCHANGED <<extVars, catalogVars, diskVars, memVars, missing_numbers, calls, attempted,
                   snapVars, run, script, exit_status,
                   resolved, ranges, suspended, paced, poolVars, all_existing_results>>

\* time.sleep(1.5) unless this was the last item (the clock then shows a
\* later second), and the progress line
LB_RateLimit ==
    /\ pc = "lb_sleep"
    /\ idx' = idx + 1
    /\ paced' = (idx < Len(missing_numbers) \/ paced)
    /\ same_second' = (idx >= Len(missing_numbers) /\ same_second)
    /\ pc' = "lb_loop"
    /\ last_save' = "none"
    /\ UNCHANGED <<extVars, catalogVars, diskVars, memVars, missing_numbers, histVars, snapVars,
                   ret, run, budget, script, exit_status, resolved, ranges, suspended, poolVars,
                   new_results, all_existing_results, failed, checkpoint_count,
                   emergency_backups>>

\* save_checkpoint returns to process_large_batch: a failed checkpoint is
\* followed by an emergency save; the final save ends the function
LBSaveReturn(result) ==
    /\ last_save' = result
    /\ ret' = "none"
    /\ EmergencySave(new_results, result # "ok")
    /\ IF ret = "periodic"
       THEN pc' = "lb_sleep" /\ exit_status' = exit_status
       ELSE /\ pc' = "idle"
            /\ exit_status' = IF result = "ok" THEN "returned_true" ELSE "returned_false"

\* save_checkpoint: the summary (reads the catalog, divides by its length)
LB_SaveBegin ==
    /\ pc = "lb_save_entry"
    /\ store_at_entry' = master_file
    /\ \E ok \in (IF total_reports = 0 THEN {FALSE} ELSE StepOutcomes) :
          /\ budget' = IF total_reports = 0 THEN budget ELSE SpendStep(ok)
          /\ IF ok
             THEN /\ pc' = "lb_save_open"
                  /\ last_save' = "none"
                  /\ UNCHANGED <<ret, exit_status, emergency_backups, same_second>>
             ELSE LBSaveReturn("failed_summary")
    /\ UNCHANGED <<extVars, catalogVars, diskVars, memVars, loopVars, histVars, prev, run, script,
                   resolved, ranges, suspended, paced, poolVars, new_results, all_existing_results, failed, checkpoint_count>>

\* with pd.ExcelWriter(temp_file, ...)
LB_SaveOpenTemp ==
    /\ pc = "lb_save_open"
    /\ temp_file' = PartialFile
    /\ pc' = "lb_save_write"
    /\ last_save' = "none"
    /\ UNCHANGED <<extVars, catalogVars, master_file, state_file, state_temp, memVars, loopVars,
                   histVars, snapVars, ret, run, budget, script, exit_status,
                   resolved, ranges, suspended, paced, poolVars,
                   lbVars>>

\* the two sheets are written; on a failure the temp file stays as it is
LB_SaveWriteTemp ==
    /\ pc = "lb_save_write"
    /\ \E ok \in StepOutcomes :
          /\ budget' = SpendStep(ok)
          /\ IF ok
             THEN /\ temp_file' = Workbook(all_existing_results \o new_results, <<>>)
                  /\ pc' = "lb_save_rename"
                  /\ last_save' = "none"
                  /\ UNCHANGED <<ret, exit_status, emergency_backups, same_second>>
             ELSE /\ LBSaveReturn("failed_write")
                  /\ UNCHANGED temp_file
    /\ UNCHANGED <<extVars, catalogVars, master_file, state_file, state_temp, memVars, loopVars,
                   histVars, snapVars, run, script,
                   resolved, ranges, suspended, paced, poolVars, new_results,
                   all_existing_results, failed, checkpoint_count>>

\* os.rename(temp_file, self.master_file)
LB_SaveRename ==
    /\ pc = "lb_save_rename"
    /\ \E ok \in StepOutcomes :
          /\ budget' = SpendStep(ok)
          /\ IF ok
             THEN /\ master_file' = temp_file
                  /\ temp_file' = NoFile
                  /\ pc' = "lb_save_state"
                  /\ last_save' = "none"
                  /\ UNCHANGED <<ret, exit_status, emergency_backups, same_second>>
             ELSE /\ LBSaveReturn("failed_rename")
                  /\ UNCHANGED <<master_file, temp_file>>
    /\ UNCHANGED <<extVars, catalogVars, state_file, state_temp, memVars, loopVars,
                   histVars, snapVars, run, script,
                   resolved, ranges, suspended, paced, poolVars, new_results,
                   all_existing_results, failed, checkpoint_count>>

\* the state file; on a failure the temp state file stays
LB_SaveState ==
    /\ pc = "lb_save_state"
    /\ \E ok \in StepOutcomes :
          /\ budget' = SpendStep(ok)
          /\ IF ok
             THEN /\ state_file' = LBStateDoc(all_existing_results \o new_results,
                                              IF ret = "final" THEN checkpoint_count + 1
                                              ELSE checkpoint_count)
                  /\ LBSaveReturn("ok")
                  /\ UNCHANGED state_temp
             ELSE /\ LBSaveReturn("failed_state")
                  /\ state_temp' = TRUE
                  /\ UNCHANGED state_file
    /\ UNCHANGED <<extVars, catalogVars, master_file, temp_file, memVars, loopVars,
                   histVars, snapVars, run, script,
                   resolved, ranges, suspended, paced, poolVars, new_results,
                   all_existing_results, failed, checkpoint_count>>

\* handle_interrupt: only the flag is set, the interrupted code goes on
LB_HandleInterrupt ==
    /\ pc # "idle"
    /\ script.free
    /\ budget > 0
    /\ budget' = budget - 1
    /\ interrupted' = TRUE
    /\ last_save' = "none"
    /\ UNCHANGED <<extVars, catalogVars, diskVars, processed_reports, all_results, failed_reports,
                   loopVars, histVars, snapVars, pc, ret, run, script, exit_status,
                   resolved, ranges, suspended, paced, poolVars, lbVars>>

-----------------------------------------------------------------------------
(* Specification of the LargeBatchProcessor runs *)

LargeCatalogSize == 11

InitLB ==
    /\ InitCommon
    /\ total_reports \in {0, LargeCatalogSize}
    /\ bad_rows \in {B \in SUBSET (1..total_reports) : Cardinality(B) <= MaxBadRows}
    /\ budget = MaxFaults
    /\ script = FreeScript

NextRunLB ==
    \/ LB_Start
    \/ LB_GetCurrentStatus
    \/ LB_Baseline
    \/ LB_LoopTop
    \/ LB_CallReturns
    \/ LB_RateLimit
    \/ LB_SaveBegin
    \/ LB_SaveOpenTemp
    \/ LB_SaveWriteTemp
    \/ LB_SaveRename
    \/ LB_SaveState

NextLB ==
    \/ NextRunLB
    \/ LB_HandleInterrupt
    \/ EnvCrash
    \/ EnvCorruptMaster

SpecLB == InitLB /\ [][NextLB]_vars

\* the script is run again and again on a catalog larger than one batch; rows
\* without essential data are the only failures
BatchCatalogSize == 102

BadRowSets == {{}, {1}, 1..batch_size, 2..(batch_size + 1)}

InitBatches ==
    /\ InitCommon
    /\ total_reports = BatchCatalogSize
    /\ bad_rows \in BadRowSets
    /\ budget = 0
    /\ script = FreeScript

NextBatches ==
    \/ LB_StartAgain
    \/ LB_GetCurrentStatus
    \/ LB_Baseline
    \/ LB_LoopTop
    \/ LB_CallReturns
    \/ LB_RateLimit
    \/ LB_SaveBegin
    \/ LB_SaveOpenTemp
    \/ LB_SaveWriteTemp
    \/ LB_SaveRename
    \/ LB_SaveState

\* the step in which get_current_status returns to main
LB_StatusReturns == pc = "lb_status" /\ pc' \in {"idle", "lb_baseline"}

\* a started run goes on to its end and the script is started again
FairBatches ==
    /\ WF_vars(LB_StartAgain)
    /\ WF_pc(LB_StatusReturns)
    /\ WF_vars(LB_Baseline)
    /\ WF_vars(LB_LoopTop)
    /\ WF_vars(LB_CallReturns)
    /\ WF_vars(LB_RateLimit)
    /\ WF_vars(LB_SaveBegin)
    /\ WF_vars(LB_SaveOpenTemp)
    /\ WF_vars(LB_SaveWriteTemp)
    /\ WF_vars(LB_SaveRename)
    /\ WF_vars(LB_SaveState)

SpecBatches == InitBatches /\ [][NextBatches]_vars /\ FairBatches

-----------------------------------------------------------------------------
(* Recent400ReportsProcessor *)

\* report_id = f"Recent_{row['report_id']}": the rows of the catalog carry the
\* distinct Metabase ids 1..N
RecentId(report_num) == <<"Recent_">> \o Str(report_num)

\* processed_ids = set(df_existing['report_id'].tolist())
processed_ids == Range(all_existing_results)

\* what no step of the processor touches
RecentFrame ==
    UNCHANGED <<extVars, catalogVars, processed_reports, all_results, failed_reports,
                missing_numbers, script, resolved, ranges, suspended, poolVars>>

\* main after its input checks, and Recent400ReportsProcessor.__init__
R4_Start ==
    /\ pc = "idle"
    /\ run < MaxRuns
    /\ run' = run + 1
    /\ interrupted' = FALSE
    /\ paced' = FALSE
    /\ idx' = 1
    /\ new_results' = <<>>
    /\ all_existing_results' = <<>>
    /\ failed' = <<>>
    /\ checkpoint_count' = 0
    /\ same_second' \in {same_second, FALSE}
    /\ calls' = <<>>
    /\ attempted' = <<>>
    /\ succeeded' = {}
    /\ pc' = "r4_status"
    /\ ret' = "none"
    /\ last_save' = "none"
    /\ exit_status' = "running"
    /\ prev' = [status      |-> exit_status,
                results     |-> Range(all_existing_results \o new_results),
                failed      |-> Range(failed),
                call_failed |-> Range(calls) \ succeeded,
                master      |-> master_file,
                state       |-> state_file]
    /\ UNCHANGED <<diskVars, budget, store_at_entry, emergency_backups>>
    /\ RecentFrame

\* get_current_status counts the rows of the master file (0 when it cannot be
\* read) and subtracts the count from the catalog length; nothing remaining
\* returns True at once
R4_GetCurrentStatus ==
    /\ pc = "r4_status"
    /\ last_save' = "none"
    /\ LET processed_count == IF master_file.exists /\ master_file.readable
                              THEN Len(master_file.results) ELSE 0
           remaining == total_reports - processed_count
       IN IF remaining = 0
          THEN pc' = "idle" /\ exit_status' = "complete"
          ELSE pc' = "r4_load" /\ exit_status' = exit_status
    /\ UNCHANGED <<diskVars, interrupted, idx, histVars, snapVars, ret, run, budget,
                   lbVars, paced>>
    /\ RecentFrame

\* the existing rows are read without a try block (a file that cannot be
\* read, or a results sheet without rows and so without the report_id column,
\* raises into main), then the generator is set up
R4_LoadExisting ==
    /\ pc = "r4_load"
    /\ IF master_file.exists /\ (~master_file.readable \/ master_file.results = <<>>)
       THEN /\ pc' = "idle"
            /\ exit_status' = "error"
            /\ UNCHANGED <<all_existing_results, budget>>
       ELSE /\ all_existing_results' = IF master_file.exists THEN master_file.results
                                                              ELSE <<>>
            /\ \E ok \in StepOutcomes :
                  /\ budget' = SpendStep(ok)
                  /\ IF ok
                     THEN pc' = "r4_loop" /\ exit_status' = exit_status
                     ELSE pc' = "idle" /\ exit_status' = "returned_false"
    /\ idx' = 1
    /\ last_save' = "none"
    /\ UNCHANGED <<diskVars, interrupted, histVars, snapVars, ret, run, paced,
                   new_results, failed, checkpoint_count, emergency_backups, same_second>>
    /\ RecentFrame

\* top of the loop over the catalog rows: on the interrupted flag an emergency
\* save and sys.exit(0); after the last row the final save; a row whose id is
\* in processed_ids is skipped; else the row is checked and the call is made
R4_LoopTop ==
    /\ pc = "r4_loop"
    /\ last_save' = "none"
    /\ IF idx <= total_reports /\ interrupted
       THEN /\ \E ok \in StepOutcomes :
                  /\ budget' = SpendStep(ok)
                  /\ EmergencySave(new_results, ok)
            /\ pc' = "idle"
            /\ exit_status' = "interrupted"
            /\ UNCHANGED <<idx, histVars, ret, failed, paced>>
       ELSE IF idx > total_reports
       THEN /\ pc' = "r4_save_entry"
            /\ ret' = "final"
            /\ UNCHANGED <<idx, histVars, failed, budget, emergency_backups, same_second,
                           exit_status, paced>>
       ELSE IF RecentId(idx) \in processed_ids
       THEN /\ idx' = idx + 1
            /\ pc' = "r4_loop"
            /\ UNCHANGED <<histVars, ret, failed, budget, emergency_backups, same_second,
                           exit_status, paced>>
       ELSE /\ attempted' = Append(attempted, idx)
            /\ IF idx \in bad_rows
               THEN /\ failed' = Append(failed, FailureRecord(RecentId(idx), "Missing data"))
                    /\ idx' = idx + 1
                    /\ pc' = "r4_loop"
                    /\ UNCHANGED <<calls, paced>>
               ELSE /\ calls' = Append(calls, idx)
                    /\ paced' = FALSE
                    /\ pc' = "r4_call"
                    /\ UNCHANGED <<failed, idx>>
            /\ UNCHANGED <<succeeded, ret, budget, emergency_backups, same_second,
                           exit_status>>
    /\ UNCHANGED <<diskVars, interrupted, snapVars, run, new_results,
                   all_existing_results, checkpoint_count>>
    /\ RecentFrame

\* call_gemini_api returns, within the second in which it was called or later:
\* result or failure recorded, then the checkpoint test; an exception, raised
\* before or after the result is appended, is recorded with an emergency save
\* and the loop goes on
R4_CallReturns ==
    /\ pc = "r4_call"
    /\ last_save' = "none"
    /\ \E outcome \in ServiceOutcomes, same \in {same_second, FALSE} :
          /\ Allowed(outcome, idx)
          /\ budget' = Spend(outcome)
          /\ IF outcome \in {"success", "late_exception"}
             THEN /\ new_results' = Append(new_results, RecentId(idx))
                  /\ succeeded' = succeeded \cup {idx}
             ELSE UNCHANGED <<new_results, succeeded>>
          /\ IF outcome = "success"
             THEN UNCHANGED failed
             ELSE failed' = Append(failed,
                         FailureRecord(RecentId(idx),
                             IF outcome = "api_fail" THEN "API failed" ELSE "exception"))
          /\ IF outcome \in {"exception", "late_exception"}
             THEN /\ EmergencySaveAt(new_results', TRUE, same)
                  /\ pc' = "r4_loop" /\ idx' = idx + 1
                  /\ UNCHANGED <<ret, checkpoint_count>>
             ELSE /\ same_second' = same
                  /\ UNCHANGED <<emergency_backups, idx>>
                  /\ IF CheckpointDue(new_results')
                     THEN /\ checkpoint_count' = checkpoint_count + 1
                          /\ pc' = "r4_save_entry"
                          /\ ret' = "periodic"
                     ELSE /\ pc' = "r4_sleep"
                          /\ UNCHANGED <<ret, checkpoint_count>>
    /\ UNCHANGED <<diskVars, interrupted, calls, attempted, snapVars, run, exit_status,
                   paced, all_existing_results>>
    /\ RecentFrame

\* time.sleep(1.5) after every item, and the progress line
R4_RateLimit ==
    /\ pc = "r4_sleep"
    /\ idx' = idx + 1
    /\ paced' = TRUE
    /\ same_second' = FALSE
    /\ pc' = "r4_loop"
    /\ last_save' = "none"
    /\ UNCHANGED <<diskVars, interrupted, histVars, snapVars, ret, run, budget,
                   exit_status, new_results, all_existing_results, failed,
                   checkpoint_count, emergency_backups>>
    /\ RecentFrame

\* save_checkpoint returns to process_recent_400_reports: a failed checkpoint
\* is followed by an emergency save; after the final save the Failed_Reports
\* sheet is added if there are failures, then the master file is verified
R4SaveReturn(result) ==
    /\ last_save' = result
    /\ ret' = "none"
    /\ EmergencySave(new_results, result # "ok")
    /\ IF ret = "periodic"
       THEN pc' = "r4_sleep" /\ exit_status' = exit_status
       ELSE IF result = "ok"
       THEN /\ pc' = IF failed # <<>> THEN "r4_append" ELSE "r4_verify"
            /\ exit_status' = exit_status
       ELSE pc' = "idle" /\ exit_status' = "returned_false"

\* save_checkpoint: the summary (reads the catalog, divides by its length)
R4_SaveBegin ==
    /\ pc = "r4_save_entry"
    /\ store_at_entry' = master_file
    /\ \E ok \in (IF total_reports = 0 THEN {FALSE} ELSE StepOutcomes) :
          /\ budget' = IF total_reports = 0 THEN budget ELSE SpendStep(ok)
          /\ IF ok
             THEN /\ pc' = "r4_save_open"
                  /\ last_save' = "none"
                  /\ UNCHANGED <<ret, exit_status, emergency_backups, same_second>>
             ELSE R4SaveReturn("failed_summary")
    /\ UNCHANGED <<diskVars, interrupted, idx, histVars, prev, run, paced, new_results,
                   all_existing_results, failed, checkpoint_count>>
    /\ RecentFrame

\* with pd.ExcelWriter(temp_file, ...)
R4_SaveOpenTemp ==
    /\ pc = "r4_save_open"
    /\ temp_file' = PartialFile
    /\ pc' = "r4_save_write"
    /\ last_save' = "none"
    /\ UNCHANGED <<master_file, state_file, state_temp, interrupted, idx, histVars,
                   snapVars, ret, run, budget, exit_status, paced, lbVars>>
    /\ RecentFrame

\* the two sheets are written; on a failure the temp file stays as it is
R4_SaveWriteTemp ==
    /\ pc = "r4_save_write"
    /\ \E ok \in StepOutcomes :
          /\ budget' = SpendStep(ok)
          /\ IF ok
             THEN /\ temp_file' = Workbook(all_existing_results \o new_results, <<>>)
                  /\ pc' = "r4_save_rename"
                  /\ last_save' = "none"
                  /\ UNCHANGED <<ret, exit_status, emergency_backups, same_second>>
             ELSE /\ R4SaveReturn("failed_write")
                  /\ UNCHANGED temp_file
    /\ UNCHANGED <<master_file, state_file, state_temp, interrupted, idx, histVars,
                   snapVars, run, paced, new_results, all_existing_results, failed,
                   checkpoint_count>>
    /\ RecentFrame

\* os.rename(temp_file, self.master_file)
R4_SaveRename ==
    /\ pc = "r4_save_rename"
    /\ \E ok \in StepOutcomes :
          /\ budget' = SpendStep(ok)
          /\ IF ok
             THEN /\ master_file' = temp_file
                  /\ temp_file' = NoFile
                  /\ pc' = "r4_save_state"
                  /\ last_save' = "none"
                  /\ UNCHANGED <<ret, exit_status, emergency_backups, same_second>>
             ELSE /\ R4SaveReturn("failed_rename")
                  /\ UNCHANGED <<master_file, temp_file>>
    /\ UNCHANGED <<state_file, state_temp, interrupted, idx, histVars, snapVars, run,
                   paced, new_results, all_existing_results, failed, checkpoint_count>>
    /\ RecentFrame

\* the state file; on a failure the temp state file stays
R4_SaveState ==
    /\ pc = "r4_save_state"
    /\ \E ok \in StepOutcomes :
          /\ budget' = SpendStep(ok)
          /\ IF ok
             THEN /\ state_file' = LBStateDoc(all_existing_results \o new_results,
                                              IF ret = "final" THEN checkpoint_count + 1
                                              ELSE checkpoint_count)
                  /\ R4SaveReturn("ok")
                  /\ UNCHANGED state_temp
             ELSE /\ R4SaveReturn("failed_state")
                  /\ state_temp' = TRUE
                  /\ UNCHANGED state_file
    /\ UNCHANGED <<master_file, temp_file, interrupted, idx, histVars, snapVars, run,
                   paced, new_results, all_existing_results, failed, checkpoint_count>>
    /\ RecentFrame

\* if failed: pd.ExcelWriter(self.master_file, mode='a') opens the master file
\* itself and writes the workbook with the added Failed_Reports sheet back to
\* it in place; an exception is caught and reported, and may leave the file
\* partly written
R4_AppendFailed ==
    /\ pc = "r4_append"
    /\ \E ok \in StepOutcomes :
          /\ budget' = SpendStep(ok)
          /\ IF ok
             THEN master_file' = Workbook(master_file.results, failed)
             ELSE master_file' \in {master_file, PartialFile}
    /\ pc' = "r4_verify"
    /\ last_save' = "none"
    /\ UNCHANGED <<temp_file, state_file, state_temp, interrupted, idx, histVars,
                   snapVars, ret, run, exit_status, paced, lbVars>>
    /\ RecentFrame

\* verification: the master file is read back (a failure raises into main) and
\* its row count is compared with the expected total
R4_Verify ==
    /\ pc = "r4_verify"
    /\ pc' = "idle"
    /\ exit_status' = IF ~master_file.readable THEN "error"
                      ELSE IF Len(master_file.results)
                                = Len(all_existing_results) + Len(new_results)
                           THEN "returned_true"
                           ELSE "returned_false"
    /\ last_save' = "none"
    /\ UNCHANGED <<diskVars, interrupted, idx, histVars, snapVars, ret, run, budget,
                   paced, lbVars>>
    /\ RecentFrame

-----------------------------------------------------------------------------
(* Specification of the Recent400ReportsProcessor runs *)

RecentCatalogSize == 11

InitRecent ==
    /\ InitCommon
    /\ total_reports \in {0, RecentCatalogSize}
    /\ bad_rows \in {B \in SUBSET (1..total_reports) : Cardinality(B) <= MaxBadRows}
    /\ budget = MaxFaults
    /\ script = FreeScript

NextRunRecent ==
    \/ R4_Start
    \/ R4_GetCurrentStatus
    \/ R4_LoadExisting
    \/ R4_LoopTop
    \/ R4_CallReturns
    \/ R4_RateLimit
    \/ R4_SaveBegin
    \/ R4_SaveOpenTemp
    \/ R4_SaveWriteTemp
    \/ R4_SaveRename
    \/ R4_SaveState
    \/ R4_AppendFailed
    \/ R4_Verify

NextRecent ==
    \/ NextRunRecent
    \/ LB_HandleInterrupt
    \/ EnvCrash

SpecRecent == InitRecent /\ [][NextRecent]_vars

-----------------------------------------------------------------------------
(* Recent400ReportsProcessor started on a master file of any content *)

StoreCatalogSize == 2
MaxStoreKey == 3
MaxStoreRows == 3

\* the rows a results sheet can hold: any ids, in any order, repeated or not
StoreRows ==
    UNION {[1..n -> {RecentId(k) : k \in 1..MaxStoreKey}] : n \in 0..MaxStoreRows}

\* the files that can be at the master path when the script is started
StoreContents == {Workbook(rows, <<>>) : rows \in StoreRows} \cup {PartialFile}

\* the master file the first run finds
StoreInput ==
    /\ pc = "idle"
    /\ run = 0
    /\ ~master_file.exists
    /\ master_file' \in StoreContents
    /\ UNCHANGED <<temp_file, state_file, state_temp, interrupted, loopVars, histVars,
                   snapVars, pc, ret, run, budget, last_save, exit_status, lbVars, paced>>
    /\ RecentFrame

InitStore ==
    /\ InitCommon
    /\ total_reports = StoreCatalogSize
    /\ bad_rows = {}
    /\ budget = 1
    /\ script = FreeScript

NextStore ==
    \/ StoreInput
    \/ NextRecent

SpecStore == InitStore /\ [][NextStore]_vars

-----------------------------------------------------------------------------
(* OptimizedGeminiProcessor: the worker pool and its rate limiter *)

\* the executor hands the next submitted row to a free worker thread (the
\* threads are interchangeable: the free thread with the lowest number)
Pool_Take(w) ==
    /\ wpc[w] = "idle"
    /\ \A v \in Workers : v < w => wpc[v] # "idle"
    /\ tasks_left > 0
    /\ tasks_left' = tasks_left - 1
    /\ wpc' = [wpc EXCEPT ![w] = "acquire"]
    /\ UNCHANGED <<clock, last_request_time, rate_limiter_lock, wait_until, started,
                   last_start, start_gap, pass_gap, ticks>>

\* a limiter entered without taking the lock
Pool_EnterUnlocked(w) ==
    /\ wpc[w] = "acquire"
    /\ rate_limiter_lock' = w
    /\ LET time_since_last == clock - last_request_time
       IN IF time_since_last < rate_limit_interval
          THEN /\ wait_until' = clock + (rate_limit_interval - time_since_last)
               /\ wpc' = [wpc EXCEPT ![w] = "sleep"]
          ELSE /\ wpc' = [wpc EXCEPT ![w] = "stamp"]
               /\ UNCHANGED wait_until
    /\ UNCHANGED <<clock, last_request_time, tasks_left, started, last_start, start_gap,
                   pass_gap, ticks>>

\* rate_limited_api_call: with self.rate_limiter_lock, the time is read and
\* the wait computed
Pool_Enter(w) ==
    /\ wpc[w] = "acquire"
    /\ rate_limiter_lock = 0
    /\ rate_limiter_lock' = w
    /\ LET time_since_last == clock - last_request_time
       IN IF time_since_last < rate_limit_interval
          THEN /\ wait_until' = clock + (rate_limit_interval - time_since_last)
               /\ wpc' = [wpc EXCEPT ![w] = "sleep"]
          ELSE /\ wpc' = [wpc EXCEPT ![w] = "stamp"]
               /\ UNCHANGED wait_until
    /\ UNCHANGED <<clock, last_request_time, tasks_left, started, last_start, start_gap,
                   pass_gap, ticks>>

\* time.sleep(wait_time) returns, not before the time asked for
Pool_Wake(w) ==
    /\ wpc[w] = "sleep"
    /\ clock >= wait_until
    /\ wpc' = [wpc EXCEPT ![w] = "stamp"]
    /\ UNCHANGED <<clock, last_request_time, rate_limiter_lock, wait_until, tasks_left,
                   started, last_start, start_gap, pass_gap, ticks>>

\* self.last_request_time = time.time(), and the lock is released
Pool_Stamp(w) ==
    /\ wpc[w] = "stamp"
    /\ last_request_time' = clock
    /\ pass_gap' = clock - last_request_time
    /\ rate_limiter_lock' = 0
    /\ wpc' = [wpc EXCEPT ![w] = "call"]
    /\ UNCHANGED <<clock, wait_until, tasks_left, started, last_start, start_gap, ticks>>

\* self.model.generate_content(prompt) is called, outside the lock
Pool_CallStart(w) ==
    /\ wpc[w] = "call"
    /\ started' = started + 1
    /\ start_gap' = IF last_start < 0 THEN -1 ELSE clock - last_start
    /\ last_start' = clock
    /\ wpc' = [wpc EXCEPT ![w] = "in_call"]
    /\ UNCHANGED <<clock, last_request_time, rate_limiter_lock, wait_until, tasks_left,
                   pass_gap, ticks>>

\* the call returns and process_single_report returns its result
Pool_CallEnd(w) ==
    /\ wpc[w] = "in_call"
    /\ wpc' = [wpc EXCEPT ![w] = "idle"]
    /\ UNCHANGED <<clock, last_request_time, rate_limiter_lock, wait_until, tasks_left,
                   started, last_start, start_gap, pass_gap, ticks>>

\* time passes until the sleep of the lock holder is over
Pool_SleepEnds ==
    /\ \E w \in Workers : wpc[w] = "sleep"
    /\ clock < wait_until
    /\ clock' = wait_until
    /\ UNCHANGED <<last_request_time, rate_limiter_lock, wpc, wait_until, tasks_left,
                   started, last_start, start_gap, pass_gap, ticks>>

TickMs == 50

\* time passes on its own (a call or a thread switch takes time)
Pool_Tick ==
    /\ ticks > 0
    /\ ticks' = ticks - 1
    /\ clock' = clock + TickMs
    /\ UNCHANGED <<last_request_time, rate_limiter_lock, wpc, wait_until, tasks_left,
                   started, last_start, start_gap, pass_gap>>

\* what the pool leaves alone
PoolFrame ==
    UNCHANGED <<extVars, catalogVars, diskVars, memVars, loopVars, histVars, snapVars, pc, ret, run,
                budget, script, last_save, exit_status, resolved, ranges, lbVars, suspended, paced>>

-----------------------------------------------------------------------------
(* Specifications of the worker pool *)

PoolTasks == 5

MaxTicks == 1

PoolStartMs == 1000

\* the 60 requests per minute of the limiter
RateCeiling == 60

WindowMs == 60000

InitPoolRest ==
    /\ master_file = NoFile
    /\ temp_file = NoFile
    /\ state_file = NoState
    /\ state_temp = FALSE
    /\ processed_reports = {}
    /\ all_results = <<>>
    /\ failed_reports = <<>>
    /\ interrupted = FALSE
    /\ missing_numbers = <<>>
    /\ idx = 1
    /\ pc = "pool"
    /\ ret = "none"
    /\ run = 0
    /\ calls = <<>>
    /\ attempted = <<>>
    /\ succeeded = {}
    /\ last_save = "none"
    /\ exit_status = "none"
    /\ prev = NoPrev
    /\ store_at_entry = NoFile
    /\ resolved = [ok |-> TRUE, value |-> <<>>]
    /\ new_results = <<>>
    /\ all_existing_results = <<>>
    /\ failed = <<>>
    /\ checkpoint_count = 0
    /\ emergency_backups = <<>>
    /\ same_second = FALSE
    /\ ranges = <<>>
    /\ ExtIdle
    /\ suspended = <<>>
    /\ paced = FALSE
    /\ bad_rows = {}
    /\ budget = 0
    /\ script = FreeScript
    /\ last_request_time = 0
    /\ rate_limiter_lock = 0
    /\ wpc = [w \in Workers |-> "idle"]
    /\ wait_until = 0
    /\ started = 0
    /\ last_start = -1
    /\ start_gap = -1
    /\ pass_gap = -1

\* process_reports_concurrent on a catalog of PoolTasks rows
InitPool ==
    /\ InitPoolRest
    /\ total_reports = PoolTasks
    /\ tasks_left = total_reports
    /\ clock = PoolStartMs
    /\ ticks = MaxTicks

NextPoolRun ==
    \E w \in Workers :
        \/ Pool_Take(w) /\ PoolFrame
        \/ Pool_Enter(w) /\ PoolFrame
        \/ Pool_Wake(w) /\ PoolFrame
        \/ Pool_Stamp(w) /\ PoolFrame
        \/ Pool_CallStart(w) /\ PoolFrame
        \/ Pool_CallEnd(w) /\ PoolFrame

NextPool ==
    \/ NextPoolRun
    \/ Pool_SleepEnds /\ PoolFrame
    \/ Pool_Tick /\ PoolFrame

SpecPool == InitPool /\ [][NextPool]_vars

\* a catalog large enough to go over the ceiling, time passing only in sleeps
InitRate ==
    /\ InitPoolRest
    /\ total_reports = RateCeiling + 1
    /\ tasks_left = total_reports
    /\ clock = PoolStartMs
    /\ ticks = 0

NextRate ==
    \/ NextPoolRun
    \/ Pool_SleepEnds /\ PoolFrame

SpecRate == InitRate /\ [][NextRate]_vars

-----------------------------------------------------------------------------
(* Specification of the scenario: ten items, items 4 and 7 fail in the first
   run and succeed in the second, nothing else goes wrong *)

ScenarioSize == 10

ScenarioFailing == {4, 7}

InitScenario ==
    /\ InitCommon
    /\ total_reports = ScenarioSize
    /\ bad_rows = {}
    /\ budget = 0
    /\ script = [free |-> FALSE, fail |-> <<ScenarioFailing, {}>>]

SpecScenario == InitScenario /\ [][NextRun]_vars

-----------------------------------------------------------------------------
(* Specification of the gap resolver on free inputs *)

\* ids a results sheet may hold: ids of the catalog and beyond it, an id with
\* a leading zero, ids of another processor, damaged ids and an empty cell
KeyUniverse ==
    {ReportId(n) : n \in 0..(MaxGapCatalog + 1)}
    \cup {ReportId(10), ReportId(11)}
    \cup {<<"Report_", "0", "2">>, <<"Report_", "x">>, <<"Report_", "-", "1">>,
          <<"Recent_", "1">>, <<"Report_">>, NaN}

GapCatalogs == (0..MaxGapCatalog) \cup {11}

InitGap ==
    /\ master_file = NoFile
    /\ temp_file = NoFile
    /\ state_file = NoState
    /\ state_temp = FALSE
    /\ all_results = <<>>
    /\ failed_reports = <<>>
    /\ interrupted = FALSE
    /\ missing_numbers = <<>>
    /\ idx = 1
    /\ pc = "gap"
    /\ ret = "none"
    /\ run = 0
    /\ calls = <<>>
    /\ attempted = <<>>
    /\ succeeded = {}
    /\ last_save = "none"
    /\ exit_status = "none"
    /\ prev = NoPrev
    /\ store_at_entry = NoFile
    /\ resolved = [ok |-> TRUE, value |-> <<>>]
    /\ new_results = <<>>
    /\ all_existing_results = <<>>
    /\ failed = <<>>
    /\ checkpoint_count = 0
    /\ emergency_backups = <<>>
    /\ same_second = FALSE
    /\ ranges = <<>>
    /\ ExtIdle
    /\ suspended = <<>>
    /\ paced = FALSE
    /\ PoolIdle
    /\ total_reports \in GapCatalogs
    /\ bad_rows = {}
    /\ processed_reports \in SUBSET KeyUniverse
    /\ budget = 0
    /\ script = FreeScript

\* identify_missing_reports applied to the loaded ids
GapResolve ==
    /\ pc = "gap"
    /\ resolved' = MissingNumbers(total_reports, processed_reports)
    /\ pc' = "gap_done"
    /\ UNCHANGED <<extVars, catalogVars, diskVars, memVars, loopVars, histVars,
                   ret, run, budget, script, last_save, exit_status, snapVars, lbVars,
                   suspended, paced, poolVars, ranges>>

NextGap == GapResolve

SpecGap == InitGap /\ [][NextGap]_vars

-----------------------------------------------------------------------------
(* _format_ranges *)

\* a variant that writes every range with a hyphen
RangeTextAlwaysHyphen(start, end) == Str(start) \o <<"-">> \o Str(end)

\* f"{start}-{end}" or str(start)
RangeText(start, end) ==
    IF start = end THEN Str(start) ELSE Str(start) \o <<"-">> \o Str(end)

RECURSIVE Join(_)
\* ", ".join(ranges)
Join(texts) ==
    IF texts = <<>> THEN <<>>
    ELSE IF Len(texts) = 1 THEN texts[1]
    ELSE texts[1] \o <<",", " ">> \o Join(Tail(texts))

RECURSIVE RangeLoop(_, _, _, _)
\* for num in numbers[1:] + [None]: rest = <<>> stands for num = None
RangeLoop(rest, start, end, texts) ==
    IF rest = <<>>
    THEN Append(texts, RangeText(start, end))
    ELSE LET num == Head(rest)
         IN IF num # end + 1
            THEN RangeLoop(Tail(rest), num, num, Append(texts, RangeText(start, end)))
            ELSE RangeLoop(Tail(rest), start, num, texts)

\* BulletproofProcessor._format_ranges (the same text in BulletproofRecovery)
_format_ranges(numbers) ==
    IF numbers = <<>> THEN <<"None">>
    ELSE Join(RangeLoop(Tail(numbers), numbers[1], numbers[1], <<>>))

-----------------------------------------------------------------------------
(* Specification of _format_ranges on free inputs *)

MaxRangeNumber == 11

\* the ascending lists of distinct numbers of 1..MaxRangeNumber
AscendingLists == {Sorted(S) : S \in SUBSET (1..MaxRangeNumber)}

InitRanges ==
    /\ InitCommon
    /\ total_reports = MaxRangeNumber
    /\ bad_rows = {}
    /\ budget = 0
    /\ script = FreeScript

\* the caller holds a list of missing numbers
RangesInput ==
    /\ pc = "idle"
    /\ run = 0
    /\ missing_numbers' \in AscendingLists
    /\ pc' = "format"
    /\ UNCHANGED <<extVars, catalogVars, diskVars, memVars, idx, histVars, snapVars, ret, run,
                   budget, script, last_save, exit_status, resolved, ranges, lbVars,
                   suspended, paced, poolVars>>

\* ranges = self._format_ranges(missing_numbers)
FormatRanges ==
    /\ pc = "format"
    /\ ranges' = _format_ranges(missing_numbers)
    /\ pc' = "formatted"
    /\ UNCHANGED <<extVars, catalogVars, diskVars, memVars, loopVars, histVars, snapVars, ret, run,
                   budget, script, last_save, exit_status, resolved, lbVars,
                   suspended, paced, poolVars>>

NextRanges == RangesInput \/ FormatRanges

SpecRanges == InitRanges /\ [][NextRanges]_vars

-----------------------------------------------------------------------------
(* GeminiBusinessContextGenerator.process_reports and resume_processing.py *)

\* a line of the log that names a report: the success line written by
\* call_gemini_api, or a warning / error line
LogLine(report_num, success) == [report |-> report_num, success |-> success]

RECURSIVE LastCompleted(_)
\* for line in reversed(lines): the first line with "Successfully generated
\* business context" gives the number matched by Report_(\d+):
LastCompleted(lines) ==
    IF lines = <<>> THEN 0
    ELSE IF lines[Len(lines)].success THEN lines[Len(lines)].report
         ELSE LastCompleted(SubSeq(lines, 1, Len(lines) - 1))

\* find_last_processed_report: 1 when there is no log file or no success
\* line, or when reading the log raises
find_last_processed_report(readable) ==
    IF readable /\ LastCompleted(log) > 0 THEN LastCompleted(log) + 1 ELSE 1

\* Save incremental progress every 25 reports
incremental_every == 25

\* save_results(output_file): nothing is written without results or when the
\* writer raises; a file of the same name is replaced
SaveResults(files, name, rows, ok) ==
    IF rows = <<>> \/ ~ok THEN files
    ELSE SelectSeq(files, LAMBDA f : f.name # name) \o <<[name |-> name, rows |-> rows]>>

\* what the sequential generator leaves alone
GenFrame ==
    UNCHANGED <<catalogVars, diskVars, processed_reports, all_results, interrupted,
                missing_numbers, histVars, snapVars, ret, script, last_save, resolved,
                ranges, lbVars, suspended, paced, poolVars, progress_files,
                master_results_file, merged, procs, futures>>

\* main of gemini_business_context_generator.py up to the loop:
\* process_reports() starts from Report_1; the log file is opened for append
GEN_Start ==
    /\ pc = "idle"
    /\ run < MaxRuns
    /\ run' = run + 1
    /\ gen_results' = <<>>
    /\ failed_reports' = <<>>
    /\ start_from_report' = 1
    /\ idx' = 1
    /\ \E ok \in StepOutcomes :
          /\ budget' = SpendStep(ok)
          /\ IF ok
             THEN pc' = "gen_loop" /\ exit_status' = "running"
             ELSE pc' = "idle" /\ exit_status' = "returned"
    /\ UNCHANGED <<log, output_files>>
    /\ GenFrame

\* main of resume_processing.py up to the loop:
\* process_reports(start_from_report=find_last_processed_report())
RS_Start ==
    /\ pc = "idle"
    /\ run < MaxRuns
    /\ run' = run + 1
    /\ gen_results' = <<>>
    /\ failed_reports' = <<>>
    /\ \E readable \in StepOutcomes :
          /\ budget' = SpendStep(readable)
          /\ start_from_report' = find_last_processed_report(readable)
          /\ idx' = find_last_processed_report(readable)
    /\ pc' = "gen_loop"
    /\ exit_status' = "resuming"
    /\ UNCHANGED <<log, output_files>>
    /\ GenFrame

\* one iteration of the loop of process_reports for Report_<idx>: a row
\* without essential data is recorded as failed; else call_gemini_api logs
\* its outcome and the result or the failure is recorded; an exception in the
\* try block (before the result is appended, or after it) is recorded as a
\* failure; when the number of results is a multiple of 25 they are written
\* to temp_progress_<count>_reports.xlsx
GEN_Step ==
    /\ pc = "gen_loop"
    /\ idx <= total_reports
    /\ LET report_id == ReportId(idx)
       IN IF idx \in bad_rows
          THEN /\ failed_reports' = Append(failed_reports,
                      FailureRecord(report_id, "Missing essential data"))
               /\ log' = Append(log, LogLine(idx, FALSE))
               /\ UNCHANGED <<gen_results, output_files, budget>>
          ELSE \E outcome \in ServiceOutcomes :
               LET appended == outcome \in {"success", "late_exception"}
                   session == IF appended THEN Append(gen_results, report_id)
                                          ELSE gen_results
                   due == /\ outcome \in {"success", "api_fail"}
                          /\ session # <<>>
                          /\ Len(session) % incremental_every = 0
               IN /\ Allowed(outcome, idx)
                  /\ budget' = Spend(outcome)
                  /\ log' = Append(log, LogLine(idx, appended))
                  /\ gen_results' = session
                  /\ failed_reports' =
                        IF outcome = "success" THEN failed_reports
                        ELSE Append(failed_reports,
                                FailureRecord(report_id,
                                    IF outcome = "api_fail" THEN "API call failed"
                                    ELSE "Unexpected error"))
                  /\ \E ok \in (IF due THEN BOOLEAN ELSE {TRUE}) :
                        output_files' =
                            IF due
                            THEN SaveResults(output_files,
                                             <<"temp_progress", Len(session)>>, session, ok)
                            ELSE output_files
    /\ idx' = idx + 1
    /\ UNCHANGED <<start_from_report, pc, run, exit_status>>
    /\ GenFrame

\* after the loop process_reports returns True and main calls save_results():
\* the results of this session go to a new file named after the time
GEN_Finish ==
    /\ pc = "gen_loop"
    /\ idx > total_reports
    /\ \E ok \in StepOutcomes :
          /\ budget' = SpendStep(ok)
          /\ output_files' = SaveResults(output_files, <<"final", run>>, gen_results, ok)
    /\ pc' = "idle"
    /\ exit_status' = "returned_true"
    /\ UNCHANGED <<log, gen_results, failed_reports, start_from_report, idx, run>>
    /\ GenFrame

ResumeCatalogSize == 4

InitResume ==
    /\ InitCommon
    /\ total_reports = ResumeCatalogSize
    /\ bad_rows \in {B \in SUBSET (1..total_reports) : Cardinality(B) <= MaxBadRows}
    /\ budget = MaxFaults
    /\ script = FreeScript

NextResume ==
    \/ GEN_Start
    \/ RS_Start
    \/ GEN_Step
    \/ GEN_Finish
    \/ EnvCrash

SpecResume == InitResume /\ [][NextResume]_vars

-----------------------------------------------------------------------------
(* combine_all_results.py and BulletproofRecovery.load_existing_work *)

\* a row of a Business_Context_Results sheet: the key and the file it is in
\* (0 is the master file), which stands for the rest of the record
ResultRow(report_num, file) == [report_id |-> ReportId(report_num), src |-> file]

RowIds(rows) == {rows[k].report_id : k \in 1..Len(rows)}

\* a test that takes every row as new
IsNewKeyAlways(report_id, rows) == report_id # <<>>

\* if report_id and report_id not in processed_report_ids
IsNewKey(report_id, rows) == report_id # <<>> /\ report_id \notin RowIds(rows)

RECURSIVE AddNewRows(_, _)
\* for _, row in df_results.iterrows(): the rows with a new key are appended
AddNewRows(acc, rows) ==
    IF rows = <<>> THEN acc
    ELSE AddNewRows(IF IsNewKey(Head(rows).report_id, acc) THEN Append(acc, Head(rows))
                                                          ELSE acc,
                    Tail(rows))

RECURSIVE AddFiles(_, _)
\* for file_path in files: a file that cannot be read is reported and skipped
AddFiles(acc, files) ==
    IF files = <<>> THEN acc
    ELSE AddFiles(IF Head(files).readable THEN AddNewRows(acc, Head(files).rows) ELSE acc,
                  Tail(files))

RECURSIVE InsertByMtime(_, _)
InsertByMtime(s, f) ==
    IF s = <<>> THEN <<f>>
    ELSE IF s[Len(s)].mtime <= f.mtime THEN Append(s, f)
         ELSE Append(InsertByMtime(SubSeq(s, 1, Len(s) - 1), f), s[Len(s)])

RECURSIVE SortByMtime(_)
\* all_files.sort(key=lambda x: os.path.getmtime(x))
SortByMtime(s) ==
    IF s = <<>> THEN <<>>
    ELSE InsertByMtime(SortByMtime(SubSeq(s, 1, Len(s) - 1)), s[Len(s)])

\* combine_all_results: all_results after the loop over the files
combine_all_results == AddFiles(<<>>, SortByMtime(progress_files))

\* load_existing_work, step 1: every row of the master file with a truthy
\* report_id is taken
MasterRows ==
    IF master_results_file.exists /\ master_results_file.readable
    THEN SelectSeq(master_results_file.rows, LAMBDA r : r.report_id # <<>>)
    ELSE <<>>

\* BulletproofRecovery.load_existing_work: all_results after steps 1 and 2
load_existing_work == AddFiles(MasterRows, progress_files)

MaxMergeKey == 2
MaxMergeFiles == 2

\* the rows save_results writes for a session with these results: each key
\* once, in ascending order
SheetRows(keys, file) == [k \in 1..Len(Sorted(keys)) |-> ResultRow(Sorted(keys)[k], file)]

\* a workbook on disk: nothing is read from one that cannot be opened
FileShapes ==
    {s \in [readable : BOOLEAN, mtime : 1..2, keys : SUBSET (1..MaxMergeKey)] :
        s.readable \/ s.keys = {}}

\* the workbooks glob finds, in the order glob returns them
FoundFiles(n) ==
    {[k \in 1..n |-> [readable |-> g[k].readable, mtime |-> g[k].mtime,
                      rows |-> SheetRows(g[k].keys, k)]] : g \in [1..n -> FileShapes]}

InitMerge ==
    /\ InitCommon
    /\ total_reports = MaxMergeKey
    /\ bad_rows = {}
    /\ budget = 0
    /\ script = FreeScript

\* the files on disk when a merge script starts: what glob.glob returns and
\* the master file of the recovery
FindFiles ==
    /\ pc = "idle"
    /\ progress_files' \in UNION {FoundFiles(n) : n \in 0..MaxMergeFiles}
    /\ master_results_file' \in
          {[exists |-> FALSE, readable |-> FALSE, rows |-> <<>>],
           [exists |-> TRUE, readable |-> FALSE, rows |-> <<>>]}
          \cup {[exists |-> TRUE, readable |-> TRUE, rows |-> SheetRows(S, 0)] :
                    S \in SUBSET (1..MaxMergeKey)}
    /\ pc' = "merge"
    /\ UNCHANGED <<catalogVars, diskVars, memVars, loopVars, histVars, snapVars, ret, run,
                   budget, script, last_save, exit_status, resolved, ranges, lbVars,
                   suspended, paced, poolVars, log, output_files, start_from_report,
                   gen_results, merged, procs, futures>>

\* what the merge scripts leave alone
MergeFrame ==
    UNCHANGED <<catalogVars, diskVars, memVars, loopVars, histVars, snapVars, ret, run,
                budget, script, last_save, exit_status, resolved, ranges, lbVars,
                suspended, paced, poolVars, log, output_files, start_from_report,
                gen_results, progress_files, master_results_file, procs, futures>>

\* combine_all_results.py
Combine ==
    /\ pc = "merge"
    /\ merged' = combine_all_results
    /\ pc' = "combined"
    /\ MergeFrame

\* bulletproof_recovery.py
RecoveryLoad ==
    /\ pc = "merge"
    /\ merged' = load_existing_work
    /\ pc' = "recovered"
    /\ MergeFrame

NextMerge == FindFiles \/ Combine \/ RecoveryLoad

SpecMerge == InitMerge /\ [][NextMerge]_vars

-----------------------------------------------------------------------------
(* Two processors running at the same time on MASTER_BULLETPROOF_RESULTS.xlsx
   and MASTER_BULLETPROOF_RESULTS_temp.xlsx *)

Processors == {"bulletproof", "large_batch"}

\* a process that has not started: rows is the list its flush writes
\* (all_results, or all_existing_results + new_results), queue the numbers
\* still to process, done the items processed, fresh the results appended,
\* handle the path at which the file it has open for writing is found now
\* ("gone" once that file has been replaced), flushed the keys it has put
\* in the master file
ProcIdle == [pc |-> "idle", rows |-> <<>>, queue |-> <<>>, done |-> 0, fresh |-> 0,
             ret |-> "none", handle |-> "none", flushed |-> {}]

\* the file after a process has written rows through its open handle: the
\* handle writes from the start of the file without truncating it again, so
\* a longer workbook another process wrote there meanwhile leaves a file
\* that cannot be read
Overwritten(file, rows) ==
    IF file.readable /\ Len(file.results) > Len(rows) THEN PartialFile
    ELSE Workbook(rows, <<>>)

\* where the open handles point after the temp file was renamed to the
\* master file
AfterRename(handle) ==
    CASE handle = "temp" -> "master"
      [] handle = "master" -> "gone"
      [] OTHER -> handle

\* what the processes sharing the master file leave alone
SharedFrame ==
    UNCHANGED <<catalogVars, state_file, state_temp, memVars, loopVars, histVars, snapVars,
                ret, run, script, last_save, exit_status, resolved, ranges, lbVars,
                suspended, paced, poolVars, log, output_files, start_from_report,
                gen_results, progress_files, master_results_file, merged, futures>>

\* both scripts are started from their shells
SH_Launch ==
    /\ pc = "idle"
    /\ procs = <<>>
    /\ procs' = [p \in Processors |-> ProcIdle]
    /\ pc' = "shared"
    /\ UNCHANGED <<master_file, temp_file, budget>>
    /\ SharedFrame

\* the start of a process: BulletproofProcessor loads the master file and
\* builds its queue (a file that cannot be read counts as empty);
\* LargeBatchProcessor reads the master file in get_current_status and takes
\* the first batch_size missing numbers
SH_Load(p) ==
    /\ pc = "shared"
    /\ procs[p].pc = "idle"
    /\ IF p = "bulletproof"
       THEN LET rows == LoadedRows(master_file)
                m == MissingNumbers(total_reports, Range(rows))
            IN procs' = [procs EXCEPT ![p].rows = rows,
                                      ![p].queue = m.value,
                                      ![p].pc = "run"]
       ELSE IF master_file.exists /\ (~master_file.readable \/ master_file.results = <<>>)
            THEN procs' = [procs EXCEPT ![p].pc = "done"]
            ELSE LET processed == IF master_file.exists THEN Range(master_file.results)
                                                            ELSE {}
                     m == MissingNumbers(total_reports, processed)
                 IN procs' = [procs EXCEPT ![p].queue = Take(m.value, batch_size),
                                           ![p].pc = IF m.value = <<>> THEN "done"
                                                     ELSE "baseline"]
    /\ UNCHANGED <<master_file, temp_file, budget, pc>>
    /\ SharedFrame

\* process_large_batch reads the baseline rows from the master file
SH_Baseline(p) ==
    /\ pc = "shared"
    /\ procs[p].pc = "baseline"
    /\ IF master_file.exists /\ ~master_file.readable
       THEN procs' = [procs EXCEPT ![p].pc = "done"]
       ELSE procs' = [procs EXCEPT ![p].rows = IF master_file.exists
                                               THEN master_file.results ELSE <<>>,
                                   ![p].pc = "run"]
    /\ UNCHANGED <<master_file, temp_file, budget, pc>>
    /\ SharedFrame

\* after how many items / results a process saves
SaveDue(p, done, fresh) ==
    IF p = "bulletproof" THEN done % save_frequency = 0
    ELSE fresh > 0 /\ fresh % checkpoint_frequency = 0

\* one item of the queue: the result is appended or the call fails; then
\* the periodic save when it is due
SH_Item(p) ==
    /\ pc = "shared"
    /\ procs[p].pc = "run"
    /\ procs[p].queue # <<>>
    /\ \E outcome \in {"success", "api_fail"} :
          LET report_num == Head(procs[p].queue)
              appended == outcome = "success"
              done == procs[p].done + 1
              fresh == procs[p].fresh + (IF appended THEN 1 ELSE 0)
              due == SaveDue(p, done, fresh)
          IN /\ Allowed(outcome, report_num)
             /\ budget' = Spend(outcome)
             /\ procs' = [procs EXCEPT
                   ![p].rows = IF appended THEN Append(@, ReportId(report_num)) ELSE @,
                   ![p].queue = Tail(@),
                   ![p].done = done,
                   ![p].fresh = fresh,
                   ![p].ret = IF due THEN "periodic" ELSE @,
                   ![p].pc = IF due /\ (p = "large_batch" \/ procs[p].rows # <<>> \/ appended)
                             THEN "open" ELSE "run"]
    /\ UNCHANGED <<master_file, temp_file, pc>>
    /\ SharedFrame

\* the end of the queue: the final save; save_all_progress returns at once
\* when all_results is empty
SH_Final(p) ==
    /\ pc = "shared"
    /\ procs[p].pc = "run"
    /\ procs[p].queue = <<>>
    /\ procs' = [procs EXCEPT
          ![p].ret = "final",
          ![p].pc = IF p = "bulletproof" /\ procs[p].rows = <<>> THEN "done" ELSE "open"]
    /\ UNCHANGED <<master_file, temp_file, budget, pc>>
    /\ SharedFrame

\* with pd.ExcelWriter(temp_file, ...): the shared temp path is opened for
\* writing, which empties the file found there
SH_OpenTemp(p) ==
    /\ pc = "shared"
    /\ procs[p].pc = "open"
    /\ temp_file' = PartialFile
    /\ procs' = [procs EXCEPT ![p].pc = "write", ![p].handle = "temp"]
    /\ UNCHANGED <<master_file, budget, pc>>
    /\ SharedFrame

\* the sheets are written when the writer is closed, into the file the
\* process opened, wherever a rename of the other process has moved it;
\* BulletproofProcessor has sorted all_results before
SH_WriteTemp(p) ==
    /\ pc = "shared"
    /\ procs[p].pc = "write"
    /\ LET rows == IF p = "bulletproof" THEN SortByNumber(procs[p].rows) ELSE procs[p].rows
           at == procs[p].handle
           written == Overwritten(IF at = "temp" THEN temp_file ELSE master_file, rows)
       IN /\ temp_file' = IF at = "temp" THEN written ELSE temp_file
          /\ master_file' = IF at = "master" THEN written ELSE master_file
          /\ procs' = [procs EXCEPT
                ![p].rows = rows,
                ![p].handle = "none",
                ![p].flushed = IF at = "master" /\ written.readable
                               THEN @ \cup Range(rows) ELSE @,
                ![p].pc = "rename"]
    /\ UNCHANGED <<budget, pc>>
    /\ SharedFrame

\* os.rename(temp_file, self.master_file): whatever is at the temp path
\* replaces the master file; FileNotFoundError when the other process has
\* renamed the temp file away, and the save has then failed
SH_Rename(p) ==
    /\ pc = "shared"
    /\ procs[p].pc = "rename"
    /\ IF temp_file.exists
       THEN /\ master_file' = temp_file
            /\ temp_file' = NoFile
            /\ procs' = [q \in Processors |->
                  IF q = p
                  THEN [procs[q] EXCEPT
                          !.flushed = @ \cup (Range(procs[p].rows) \cap Range(temp_file.results)),
                          !.pc = IF procs[p].ret = "periodic" THEN "run" ELSE "done"]
                  ELSE [procs[q] EXCEPT !.handle = AfterRename(@)]]
       ELSE /\ procs' = [procs EXCEPT
                  ![p].pc = IF procs[p].ret = "periodic" THEN "run" ELSE "done"]
            /\ UNCHANGED <<master_file, temp_file>>
    /\ UNCHANGED <<budget, pc>>
    /\ SharedFrame

SharedCatalogSize == 5

InitShared ==
    /\ InitCommon
    /\ total_reports = SharedCatalogSize
    /\ bad_rows = {}
    /\ budget = MaxFaults
    /\ script = FreeScript

NextShared ==
    \/ SH_Launch
    \/ \E p \in Processors :
          \/ SH_Load(p)
          \/ SH_Baseline(p)
          \/ SH_Item(p)
          \/ SH_Final(p)
          \/ SH_OpenTemp(p)
          \/ SH_WriteTemp(p)
          \/ SH_Rename(p)

SpecShared == InitShared /\ [][NextShared]_vars

-----------------------------------------------------------------------------
(* OptimizedGeminiProcessor.process_reports_concurrent: the futures and the
   thread that collects them *)

\* self.max_workers threads take the submitted rows
CollectWorkers == 2

CollectCatalogSize == 4

\* the dict process_single_report returns for a row
SingleReport(report_num, outcome) ==
    IF report_num \in bad_rows
    THEN [status |-> "failed", report_id |-> ReportId(report_num),
          error |-> "Missing essential data"]
    ELSE CASE outcome = "success" ->
                 [status |-> "success", report_id |-> ReportId(report_num), error |-> ""]
           [] outcome = "api_fail" ->
                 [status |-> "failed", report_id |-> ReportId(report_num),
                  error |-> "API call failed"]
           [] OTHER ->
                 [status |-> "failed", report_id |-> ReportId(report_num),
                  error |-> "Unexpected error"]

\* what the collecting loop appends to self.results for a result
ToResults(result) ==
    IF result.status = "success" THEN <<result.report_id>> ELSE <<>>

\* what the collecting loop appends to self.failed_reports for a result
ToFailedAlways(result) == <<FailureRecord(result.report_id, result.error)>>

ToFailed(result) ==
    IF result.status = "success" THEN <<>>
    ELSE <<FailureRecord(result.report_id, result.error)>>

Running(fs) == {n \in DOMAIN fs : fs[n].state = "running"}

Pending(fs) == {n \in DOMAIN fs : fs[n].state = "pending"}

\* what the collection leaves alone
CollectFrame ==
    UNCHANGED <<catalogVars, diskVars, processed_reports, all_results, interrupted,
                loopVars, histVars, snapVars, ret, run, script, last_save, resolved,
                ranges, lbVars, suspended, paced, poolVars, log, output_files,
                start_from_report, progress_files, master_results_file, merged, procs>>

\* every row of self.df is submitted to the executor
CC_Submit ==
    /\ pc = "idle"
    /\ exit_status = "none"
    /\ futures' = [n \in 1..total_reports |-> [state |-> "pending", result |-> <<>>]]
    /\ pc' = "collect"
    /\ exit_status' = "running"
    /\ UNCHANGED <<gen_results, failed_reports, budget>>
    /\ CollectFrame

\* a free thread takes the row submitted first among those waiting
CC_Take ==
    /\ pc = "collect"
    /\ Pending(futures) # {}
    /\ Cardinality(Running(futures)) < CollectWorkers
    /\ LET n == CHOOSE k \in Pending(futures) : \A j \in Pending(futures) : k <= j
       IN futures' = [futures EXCEPT ![n].state = "running"]
    /\ UNCHANGED <<gen_results, failed_reports, budget, pc, exit_status>>
    /\ CollectFrame

\* process_single_report returns in its thread: every outcome, an exception
\* included, is a dict, and the thread touches neither list
CC_Finish(n) ==
    /\ pc = "collect"
    /\ n \in Running(futures)
    /\ \E outcome \in {"success", "api_fail", "exception"} :
          /\ n \in bad_rows => outcome = "success"
          /\ Allowed(outcome, n)
          /\ budget' = Spend(outcome)
          /\ futures' = [futures EXCEPT ![n].state = "done",
                                        ![n].result = SingleReport(n, outcome)]
    /\ UNCHANGED <<gen_results, failed_reports, pc, exit_status>>
    /\ CollectFrame

\* one turn of the loop over as_completed: a finished future that was not
\* handed out before, and the append its status selects
CC_Collect(n) ==
    /\ pc = "collect"
    /\ n \in DOMAIN futures
    /\ futures[n].state = "done"
    /\ futures' = [futures EXCEPT ![n].state = "collected"]
    /\ gen_results' = gen_results \o ToResults(futures[n].result)
    /\ failed_reports' = failed_reports \o ToFailed(futures[n].result)
    /\ UNCHANGED <<budget, pc, exit_status>>
    /\ CollectFrame

\* after the last future the executor is shut down and the rates are logged:
\* the success rate divides by the number of rows
CC_Return ==
    /\ pc = "collect"
    /\ \A n \in DOMAIN futures : futures[n].state = "collected"
    /\ pc' = "idle"
    /\ exit_status' = IF total_reports = 0 THEN "error" ELSE "returned"
    /\ UNCHANGED <<futures, gen_results, failed_reports, budget>>
    /\ CollectFrame

InitCollect ==
    /\ InitCommon
    /\ total_reports \in {0, CollectCatalogSize}
    /\ bad_rows \in {B \in SUBSET (1..total_reports) : Cardinality(B) <= MaxBadRows}
    /\ budget = MaxFaults
    /\ script = FreeScript

NextCollect ==
    \/ CC_Submit
    \/ CC_Take
    \/ \E n \in 1..CollectCatalogSize :
          \/ CC_Finish(n)
          \/ CC_Collect(n)
    \/ CC_Return

SpecCollect == InitCollect /\ [][NextCollect]_vars

-----------------------------------------------------------------------------
(* Notions the properties share *)

Count(s, x) == Cardinality({k \in 1..Len(s) : s[k] = x})

NoDuplicates(s) == \A j, k \in 1..Len(s) : s[j] = s[k] => j = k

\* keys of the ResultRecords a file holds
StoredKeys(file) == IF file.exists THEN Range(file.results) ELSE {}

\* keys of the FailureRecords a file holds
FailedKeys(file) == IF file.exists THEN {file.failed[k].report_id : k \in 1..Len(file.failed)} ELSE {}

\* results appended in this run that the master file does not hold
Unsaved == {n \in succeeded : ReportId(n) \notin StoredKeys(master_file)}

\* failure records appended in this run (those after the loaded ones)
NewFailures ==
    IF Len(failed_reports) >= Len(prev.state.failed)
    THEN SubSeq(failed_reports, Len(prev.state.failed) + 1, Len(failed_reports))
    ELSE <<>>

NormalExit == pc = "idle" /\ exit_status \in {"returned_true", "complete"}

-----------------------------------------------------------------------------
(* C1 *)

\* C1: after any sequence of runs (keys that failed and were retried, runs
\* that start from the store of an earlier run) the Business_Context_Results
\* table of the master store holds at most one ResultRecord per report_id.
C1_NoDuplicateKeys == NoDuplicates(master_file.results)

\* a second run stored the result of a key whose failure the first run recorded,
\* next to the results it loaded from the store of the first run
C1_Witness ==
    /\ run = 2
    /\ pc = "idle"
    /\ master_file.readable
    /\ prev.master.readable
    /\ \E n \in succeeded :
          /\ ReportId(n) \in FailedKeys(prev.master)
          /\ Count(master_file.results, ReportId(n)) = 1
    /\ StoredKeys(prev.master) # {}
    /\ StoredKeys(prev.master) \subseteq StoredKeys(master_file)

-----------------------------------------------------------------------------
(* C3 *)

\* C3: in a run of process_missing_reports, whatever the outcomes of the
\* items, the results completed in this run and not yet in the master store
\* never number more than save_frequency (stated for the runs in which no
\* fault is injected: every external call succeeds, every save step succeeds,
\* no signal; rows without essential data are part of the catalog).
C3_BoundedLoss ==
    (pc # "idle" /\ budget = MaxFaults) => Cardinality(Unsaved) <= save_frequency

-----------------------------------------------------------------------------
(* C4 *)

\* C4: when SIGINT is delivered during a batch run, the process ends with a
\* ResultRecord in the canonical master store for every item that succeeded
\* before the interrupt, those completed since the last checkpoint included.
\* Stated for the runs whose only fault is the one interrupt.
C4_InterruptFlushesAll ==
    (pc = "idle" /\ exit_status = "interrupted" /\ budget = MaxFaults - 1) =>
        \A n \in succeeded : ReportId(n) \in StoredKeys(master_file)

-----------------------------------------------------------------------------
(* C5 *)

WritePhaseFailures == {"failed_summary", "failed_write", "failed_rename"}

-----------------------------------------------------------------------------
(* C6 *)

\* the previous run ended normally and its last flush committed all it held
PrevRunCommitted ==
    /\ run >= 2
    /\ prev.status = "returned_true"
    /\ prev.master.exists /\ prev.master.readable
    /\ StoredKeys(prev.master) = prev.results
    /\ Range(prev.master.failed) = prev.failed
    /\ prev.state.exists /\ Range(prev.state.failed) = prev.failed

SecondRunChangesNothing ==
    /\ calls = <<>>
    /\ NormalExit =>
          /\ StoredKeys(master_file) = StoredKeys(prev.master)
          /\ Range(master_file.failed) = Range(prev.master.failed)

\* C6: a run that follows a completed run on the same catalog makes no
\* external processing call and leaves the sets of ResultRecords and
\* FailureRecords of the store as they were, also when items of the first
\* run ended as failures.
C6_IdempotentRerun == PrevRunCommitted => SecondRunChangesNothing

\* C6 as amended: the same, when no item of the first run that was sent to
\* the external service ended as a failure (rows without essential data may
\* have failed; they are attempted again without an external call).
C6_IdempotentRerunNoCallFailed ==
    (PrevRunCommitted /\ prev.call_failed = {}) => SecondRunChangesNothing

\* a second run after a committed first run that had a failed row ended
\* normally after attempting that row again
C6_Witness ==
    /\ PrevRunCommitted /\ prev.call_failed = {}
    /\ prev.failed # {}
    /\ NormalExit
    /\ attempted # <<>>
    /\ last_save = "ok"

-----------------------------------------------------------------------------
(* C7 *)

\* C7: ten items, items 4 and 7 fail in the first run and succeed in the
\* second: the store holds 8 ResultRecords and 2 FailureRecords after run
\* one, run two calls the service for 4 and 7 only, and the store holds 10
\* ResultRecords and no FailureRecord after run two.
C7_Scenario ==
    /\ (run = 1 /\ NormalExit) =>
          Len(master_file.results) = 8 /\ Len(master_file.failed) = 2
    /\ run = 2 => Range(calls) \subseteq ScenarioFailing
    /\ (run = 2 /\ NormalExit) =>
          /\ calls = <<4, 7>>
          /\ Len(master_file.results) = 10
          /\ Len(master_file.failed) = 0

\* what the code does in the scenario: the two FailureRecords stay
C7_ScenarioFailuresKept ==
    /\ (run = 1 /\ NormalExit) =>
          Len(master_file.results) = 8 /\ Len(master_file.failed) = 2
    /\ run = 2 => Range(calls) \subseteq ScenarioFailing
    /\ (run = 2 /\ NormalExit) =>
          /\ calls = <<4, 7>>
          /\ Len(master_file.results) = 10
          /\ FailedKeys(master_file) = {ReportId(4), ReportId(7)}

-----------------------------------------------------------------------------
(* C9 *)

RECURSIVE FailedIds(_)
\* ids of the attempted items that did not succeed, in order of attempt
FailedIds(s) ==
    IF s = <<>> THEN <<>>
    ELSE FailedIds(SubSeq(s, 1, Len(s) - 1))
         \o (IF s[Len(s)] \in succeeded THEN <<>> ELSE <<ReportId(s[Len(s)])>>)

NewFailureIds == [k \in 1..Len(NewFailures) |-> NewFailures[k].report_id]

\* the ids among them of items without a result in this run
FailuresOfFailedItems ==
    SelectSeq(NewFailureIds, LAMBDA id : \A n \in succeeded : id # ReportId(n))

\* C9: in an uninterrupted run every failure of an item is recorded as a
\* FailureRecord for its key and the loop goes on: the items of the queue are
\* attempted once each, in order, and the final flush is entered only when
\* the whole queue was attempted.
C9_FailureIsolated ==
    /\ (pc \in {"loop", "call", "sleep"} \/ ret = "periodic") =>
          /\ Len(attempted) \in {idx - 1, idx}
          /\ attempted = SubSeq(missing_numbers, 1, Len(attempted))
          /\ FailuresOfFailedItems =
                FailedIds(IF pc = "call" THEN SubSeq(attempted, 1, idx - 1) ELSE attempted)
    /\ (ret = "final" \/ (pc = "idle" /\ exit_status = "returned_true")) =>
          /\ attempted = missing_numbers
          /\ FailuresOfFailedItems = FailedIds(attempted)

\* a run ended after an item failed in each of the three ways
C9_Witness ==
    /\ pc = "idle" /\ exit_status = "returned_true"
    /\ \E a, b \in 1..Len(NewFailures) :
          /\ NewFailures[a].error = "Unexpected error"
          /\ NewFailures[b].error = "API call failed"
    /\ succeeded # {}

-----------------------------------------------------------------------------
(* C8 *)

\* C8: when the master store exists and cannot be parsed at the start of a
\* run, the run makes no external processing call (it ends in an error
\* instead of going on with an empty set of completed keys).
C8_CorruptStoreStopsRun ==
    (prev.master.exists /\ ~prev.master.readable /\ run > 0) =>
        /\ calls = <<>>
        /\ pc \notin {"setup", "loop", "call", "sleep"}

-----------------------------------------------------------------------------
(* C10 *)

\* the outcome of report_num was recorded in this run
Recorded(report_num) ==
    \/ report_num \in succeeded
    \/ \E k \in 1..Len(NewFailures) : NewFailures[k].report_id = ReportId(report_num)

\* C10: cancellation is cooperative: a call that is in flight when the signal
\* arrives completes and its outcome is recorded before the process exits.
C10_InFlightCallCompletes ==
    (pc = "idle" /\ exit_status = "interrupted") =>
        \A k \in 1..Len(calls) : Recorded(calls[k])

-----------------------------------------------------------------------------
(* C2 *)

RECURSIVE Zeros(_)
Zeros(z) == IF z = 0 THEN <<>> ELSE <<"0">> \o Zeros(z - 1)

\* the id is the text Report_<n>, leading zeros allowed
Names(report_id, n) == \E z \in 0..2 : report_id = <<"Report_">> \o Zeros(z) \o Str(n)

Ascending(s) == \A k \in 1..(Len(s) - 1) : s[k] < s[k + 1]

GapOf(total, processed) ==
    {n \in 1..total : ~ \E report_id \in processed : Names(report_id, n)}

\* C2: for every catalog size and every set of completed ids the resolver
\* returns (does not raise) exactly the numbers of 1..N that no completed id
\* names, each once, ascending; ids outside 1..N or not of the form
\* Report_<n> change nothing.
C2_GapComplete ==
    pc = "gap_done" =>
        /\ resolved.ok
        /\ Ascending(resolved.value)
        /\ Range(resolved.value) = GapOf(total_reports, processed_reports)

\* the same on the catalogs that have at least one row
C2_GapCompleteNonEmpty ==
    (pc = "gap_done" /\ total_reports > 0) =>
        /\ resolved.ok
        /\ Ascending(resolved.value)
        /\ Range(resolved.value) = GapOf(total_reports, processed_reports)

-----------------------------------------------------------------------------
(* C11 *)

\* C11: the interrupt handler is idempotent: a second SIGINT that arrives
\* while the flush started by the first SIGINT is in progress does not start
\* a nested execution of the flush routine, so no flush of a handler is ever
\* left interrupted beneath another handler.
C11_HandlerNotReentered ==
    \A k \in 1..Len(suspended) : suspended[k].ret # "handler"

-----------------------------------------------------------------------------
(* C12 *)

\* a flush of the loop or of main
LoopFlush == {"periodic", "final", "complete", "error"}

\* C12: at most one flush of the master store is in progress at a time: while
\* a periodic or final flush is between opening its temp file and completing
\* its rename, no second flush runs against the same temp and canonical paths.
C12_FlushesDoNotOverlap ==
    pc \in FlushPcs =>
        ~ \E k \in 1..Len(suspended) :
              /\ suspended[k].ret \in LoopFlush
              /\ suspended[k].pc \in {"save_write", "save_rename"}

-----------------------------------------------------------------------------
(* C13 *)

\* the run in progress follows a run that was interrupted or killed
AfterInterruption == run >= 2 /\ prev.status \in {"interrupted", "crashed"}

\* the ResultRecords a run can read from the store it starts from
DurableAtStart == IF prev.master.readable THEN StoredKeys(prev.master) ELSE {}

QueuePcs == {"setup", "loop", "call", "sleep"}

\* C13: in a run started after an interruption (the store it starts from is
\* absent or readable), no external call is made for a key that has a
\* ResultRecord in the store at the start of the run, and the work queue holds
\* every catalog key without one.
C13_ResumeExact ==
    (AfterInterruption /\ (prev.master.exists => prev.master.readable)) =>
        /\ \A k \in 1..Len(calls) : ReportId(calls[k]) \notin DurableAtStart
        /\ pc \in QueuePcs =>
              Range(missing_numbers) =
                  {n \in 1..total_reports : ReportId(n) \notin DurableAtStart}

\* a run resumed from the store an interrupted run left behind and called the
\* service for a key that store did not hold
C13_Witness ==
    /\ AfterInterruption
    /\ prev.status = "interrupted"
    /\ prev.master.readable
    /\ DurableAtStart # {}
    /\ calls # <<>>
    /\ Len(missing_numbers) = total_reports - Cardinality(DurableAtStart)

-----------------------------------------------------------------------------
(* C14 *)

\* catalog keys that start the run with a FailureRecord (state file or
\* Failed_Reports sheet) and without a ResultRecord
FailedOnly ==
    {n \in 1..total_reports :
        /\ ReportId(n) \in FailedKeys(prev.master) \cup
                            {prev.state.failed[k].report_id : k \in 1..Len(prev.state.failed)}
        /\ ReportId(n) \notin DurableAtStart}

\* C14: a key that has only a FailureRecord is never treated as completed: in
\* every later run it is in the completed-key set only once this run has
\* produced its result, and it is in the work queue of the run.
C14_FailedNeverCompleted ==
    run >= 2 =>
        /\ \A n \in FailedOnly : ReportId(n) \in processed_reports => n \in succeeded
        /\ pc \in QueuePcs => FailedOnly \subseteq Range(missing_numbers)

\* a later run queued a key that had only a FailureRecord and produced its
\* result
C14_Witness ==
    /\ run >= 2
    /\ prev.master.readable
    /\ DurableAtStart # {}
    /\ \E n \in FailedOnly :
          /\ ReportId(n) \in FailedKeys(prev.master)
          /\ n \in Range(missing_numbers)
          /\ n \in succeeded

-----------------------------------------------------------------------------
(* C15 *)

\* C15: between any two consecutive external calls of one run the pacing
\* delay (time.sleep) is executed, on every path through the per-item loop,
\* the failure and exception paths included.
C15_PacedCalls ==
    [][(Len(calls') > Len(calls) /\ calls # <<>>) => paced]_vars

-----------------------------------------------------------------------------
(* C16 *)

\* last_request_time is read and written by the holder of the lock only
LimiterLocked ==
    \A w \in Workers : wpc[w] \in {"sleep", "stamp"} => rate_limiter_lock = w

\* C16: for every interleaving of the worker threads the start times of any
\* two external calls differ by at least rate_limit_interval, and the limiter
\* state is touched under the lock only.
C16_CallStartsSpaced ==
    /\ start_gap # -1 => start_gap >= rate_limit_interval
    /\ LimiterLocked

\* C16 as amended: the times at which two workers pass the limiter (the
\* values stored in last_request_time) differ by at least
\* rate_limit_interval, and the limiter state is touched under the lock only.
C16_LimiterPassesSpaced ==
    /\ pass_gap # -1 => pass_gap >= rate_limit_interval
    /\ LimiterLocked

\* a worker passed the limiter after sleeping for the whole interval while
\* another worker waits for the lock that a third one holds
C16_Witness ==
    /\ pass_gap = rate_limit_interval
    /\ rate_limiter_lock # 0
    /\ \E w \in Workers : wpc[w] = "acquire"
    /\ started >= 1

-----------------------------------------------------------------------------
(* C17 *)

\* C17: with max_workers = 5 the limiter keeps the aggregate rate under the
\* ceiling: no more than 60 external calls start within 60 seconds (the
\* window that opens when the pool starts).
C17_UnderCeiling ==
    clock < PoolStartMs + WindowMs => started <= RateCeiling

-----------------------------------------------------------------------------
(* C18 *)

\* C18: the flush of the results and the write of the state file are two
\* separate operations: when the rename of the master file has succeeded and
\* the state write fails, the master file keeps the content just flushed, and
\* for the rest of the run (once its work queue is built) the results it holds
\* are the run's own: none of them is processed again or dropped.
C18_StateFailureKeepsFlush ==
    /\ last_save = "failed_state" =>
          master_file = Workbook(all_results, failed_reports)
    /\ (pc # "idle" /\ missing_numbers # <<>> /\ master_file.readable) =>
          /\ StoredKeys(master_file) \subseteq Range(all_results)
          /\ \A k \in 1..Len(calls) :
                ReportId(calls[k]) \in StoredKeys(master_file) => calls[k] \in succeeded

\* a periodic flush replaced an earlier store with new results, its state
\* write failed and the run goes on
C18_Witness ==
    /\ last_save = "failed_state"
    /\ pc = "sleep"
    /\ store_at_entry.exists /\ store_at_entry.readable
    /\ Len(master_file.results) > Len(store_at_entry.results)
    /\ state_file.processed # StoredKeys(master_file)

-----------------------------------------------------------------------------
(* C19 *)

\* the flush that ended in the last step got past its entry check
FlushEnded ==
    last_save \in {"ok", "failed_summary", "failed_write", "failed_rename", "failed_state"}

\* C19: after every flush, whatever step of it failed, the completed keys
\* recorded in the state file (processed_reports) are the keys of the
\* ResultRecords in the master file (stated for a state file that exists and a
\* master file that can be read).
C19_StateAgreesWithStore ==
    (FlushEnded /\ state_file.exists /\ master_file.readable) =>
        state_file.processed = StoredKeys(master_file)

-----------------------------------------------------------------------------
(* C20 *)

\* the numbers of the catalog keys without a ResultRecord at the start of
\* the run, ascending
GapAtStart == Sorted({n \in 1..total_reports : ReportId(n) \notin DurableAtStart})

\* C20: the completed-key set and the work queue of a run are a function of
\* the catalog and the master file only: whatever the state file holds at the
\* start of the run (absent, stale, not matching the master file), the loaded
\* keys are those of the master file and the queue is the gap they leave.
C20_QueueFromStoreOnly ==
    run >= 1 =>
        /\ pc = "identify" => processed_reports = DurableAtStart
        /\ pc \in QueuePcs => missing_numbers = GapAtStart

\* a run built its queue from a master file with results while the state
\* file listed other keys than the master file holds
C20_Witness ==
    /\ run >= 2
    /\ pc \in QueuePcs
    /\ prev.master.readable
    /\ DurableAtStart # {}
    /\ prev.state.exists
    /\ prev.state.processed # DurableAtStart
    /\ prev.state.processed # {}
    /\ missing_numbers # <<>>

-----------------------------------------------------------------------------
(* C21 *)

\* C21: every emergency backup is write-once: no call of emergency_save writes
\* a file that an earlier call of emergency_save has written, for every
\* sequence of emergency saves in one run.
C21_BackupsWrittenOnce ==
    \A k \in 1..Len(emergency_backups) : emergency_backups[k].writes = 1

-----------------------------------------------------------------------------
(* C22 *)

\* results of this run that a checkpoint of this run which returned True has
\* written to the master file (the state file is written last, by such a
\* checkpoint only)
CheckpointedThisRun ==
    Range(new_results) \cap (IF state_file.exists THEN state_file.processed ELSE {})

\* C22: the content of an emergency backup is the results accumulated in
\* memory since the last successful normal checkpoint: it contains no result
\* that a successful checkpoint of the same run has already written to the
\* master store.
C22_BackupHoldsUnsavedOnly ==
    [][emergency_backups' # emergency_backups =>
          Range(emergency_backups'[Len(emergency_backups')].results)
              \cap CheckpointedThisRun = {}]_vars

-----------------------------------------------------------------------------
(* C23 *)

\* the periodic checkpoint of the loop has just ended in failure and the loop
\* goes on to its sleep
CheckpointFlushFailed ==
    /\ pc \in {"sleep", "lb_sleep"}
    /\ last_save \in {"failed_summary", "failed_write", "failed_rename", "failed_state"}

\* C23: when a checkpoint flush fails, an emergency backup of the in-memory
\* buffer is attempted (and the run continues, the flush being retried at the
\* next checkpoint boundary): once a checkpoint has ended in failure,
\* emergency_save has written a backup that holds the results in memory.
C23_FailedFlushBackedUp ==
    CheckpointFlushFailed =>
        /\ emergency_backups # <<>>
        /\ Range(all_results) \cup Range(new_results)
               \subseteq Range(emergency_backups[Len(emergency_backups)].results)
                          \cup StoredKeys(store_at_entry)

-----------------------------------------------------------------------------
(* C24 *)

\* C24: after any flush that fails during its write phase, no temporary
\* artifact of that flush (the temp master file or the temp state file)
\* remains on disk.
C24_FailedFlushLeavesNoTemp ==
    last_save \in WritePhaseFailures => (~temp_file.exists /\ ~state_temp)

-----------------------------------------------------------------------------
(* C25 *)

\* C25: every modification of the canonical master store made by a batch
\* processor is a write to a temporary path followed by a single rename onto
\* the canonical path: no step opens the canonical file itself for writing or
\* appending, the step that adds the Failed_Reports table included.
C25_MasterChangedByRenameOnly ==
    [][master_file' # master_file =>
          (temp_file.readable /\ master_file' = temp_file /\ ~temp_file'.exists)]_vars

-----------------------------------------------------------------------------
(* C26 *)

\* the FailureRecords on disk: the Failed_Reports sheet of the master file and
\* failed_reports of the state file
DurableFailures ==
    (IF master_file.readable THEN Range(master_file.failed) ELSE {})
        \cup (IF state_file.exists THEN Range(state_file.failed) ELSE {})

\* C26: after every successful flush the durable checkpoint state contains a
\* FailureRecord for every item that has failed so far in the run and for the
\* failures carried over from the loaded state.
C26_FlushKeepsFailures ==
    last_save = "ok" => Range(failed) \cup Range(failed_reports) \subseteq DurableFailures

-----------------------------------------------------------------------------
(* C27 *)

\* C27: the checkpoint counter persisted with the checkpoint state is strictly
\* increasing over the whole sequence of successful flushes to a given store,
\* within one run and across separate runs that resume from that store.
C27_CheckpointCounterIncreases ==
    [][(last_save' = "ok" /\ state_file.exists) =>
          state_file'.checkpoint > state_file.checkpoint]_vars

-----------------------------------------------------------------------------
(* C28 *)

\* C28: whenever BulletproofProcessor reports that processing is complete
\* (process_missing_reports returns True), the master file contains a
\* ResultRecord for every item in all_results, those of this run and those
\* loaded from earlier runs.
C28_CompleteMeansStored ==
    (pc = "idle" /\ exit_status = "returned_true") =>
        Range(all_results) \subseteq
            (IF master_file.readable THEN StoredKeys(master_file) ELSE {})

-----------------------------------------------------------------------------
(* C29 *)

\* C29: within one run each attempted work item ends in exactly one terminal
\* state: no key is added both to the run's results and to the run's failure
\* list, and no key is added twice to either, for every outcome of the
\* per-item step, an exception raised after the result was appended included.
C29_OneTerminalState ==
    /\ \A n \in succeeded :
          /\ Count(NewFailureIds, ReportId(n)) = 0
          /\ Count(all_results, ReportId(n)) = 1
    /\ NoDuplicates(NewFailureIds)

-----------------------------------------------------------------------------
(* C30 *)

RECURSIVE SplitAt(_, _)
\* the pieces of a text between the occurrences of a separator token
SplitAt(text, sep) ==
    IF \A k \in 1..Len(text) : text[k] # sep
    THEN <<text>>
    ELSE LET k == CHOOSE j \in 1..Len(text) :
                      text[j] = sep /\ \A h \in 1..(j - 1) : text[h] # sep
         IN <<SubSeq(text, 1, k - 1)>> \o SplitAt(SubSeq(text, k + 1, Len(text)), sep)

\* the items of a ", "-separated text: every item after the first starts with
\* the space that follows the comma
Items(text) ==
    LET parts == SplitAt(text, ",")
    IN [k \in 1..Len(parts) |->
           IF k = 1 THEN parts[k]
           ELSE IF parts[k] # <<>> /\ Head(parts[k]) = " " THEN Tail(parts[k])
           ELSE <<"?">>]

\* an item is "a" or "a-b" with a and b in decimal digits
ItemWellFormed(item) ==
    LET ends == SplitAt(item, "-")
    IN Len(ends) \in {1, 2} /\ \A k \in 1..Len(ends) : AllDigits(ends[k])

ItemFirst(item) == DecimalValue(SplitAt(item, "-")[1])

ItemLast(item) == LET ends == SplitAt(item, "-") IN DecimalValue(ends[Len(ends)])

ItemHyphen(item) == Len(SplitAt(item, "-")) = 2

RECURSIVE Expansion(_)
\* the numbers a sequence of items stands for
Expansion(items) ==
    IF items = <<>> THEN <<>>
    ELSE [k \in 1..(ItemLast(items[1]) - ItemFirst(items[1]) + 1) |->
              ItemFirst(items[1]) + k - 1] \o Expansion(Tail(items))

\* the text is a ", "-separated sequence of maximal runs in ascending order,
\* "a-b" for a run of two or more numbers and "a" for a single number, whose
\* expansion is the list
RangesOf(text, numbers) ==
    LET items == Items(text)
    IN /\ \A k \in 1..Len(items) : ItemWellFormed(items[k])
       /\ \A k \in 1..Len(items) :
             IF ItemHyphen(items[k]) THEN ItemFirst(items[k]) < ItemLast(items[k])
             ELSE TRUE
       /\ \A k \in 1..(Len(items) - 1) : ItemLast(items[k]) + 1 < ItemFirst(items[k + 1])
       /\ Expansion(items) = numbers

\* C30: for every ascending list of distinct positive integers, _format_ranges
\* returns a comma-separated sequence of maximal runs in ascending order whose
\* expansion is exactly the input list; for the empty list it returns "None".
C30_FormatRanges ==
    pc = "formatted" =>
        IF missing_numbers = <<>> THEN ranges = <<"None">>
        ELSE RangesOf(ranges, missing_numbers)

\* a list with single numbers, a run of two, a longer run and two-digit
\* numbers has been formatted
C30_Witness ==
    /\ pc = "formatted"
    /\ missing_numbers = <<1, 3, 4, 6, 9, 10, 11>>
    /\ ranges = <<"1", ",", " ", "3", "-", "4", ",", " ", "6", ",", " ",
                  "9", "-", "1", "1">>

-----------------------------------------------------------------------------
(* C31 *)

\* keys of the results held by the files save_results has written
SavedKeys == UNION {Range(output_files[k].rows) : k \in 1..Len(output_files)}

\* C31: when resume_processing enters the loop with r = start_from_report,
\* every report numbered below r has a saved result and no report numbered
\* r or above has one, so that processing r..N neither skips a report without
\* a result nor reprocesses one with a result.
C31_ResumePoint ==
    (pc = "gen_loop" /\ exit_status = "resuming" /\ idx = start_from_report) =>
        \A n \in 1..total_reports :
            (n < start_from_report) <=> (ReportId(n) \in SavedKeys)

-----------------------------------------------------------------------------
(* C32 *)

\* C32: when the large batch processor is run again and again, a moment comes
\* at which every catalog key without a ResultRecord has been attempted by
\* the run in progress, also when some rows fail in every run.
C32_EveryKeyAttempted ==
    <>(\A n \in 1..total_reports :
          n \in Range(attempted) \/ ReportId(n) \in StoredKeys(master_file))

-----------------------------------------------------------------------------
(* C33 *)

RECURSIVE Concat(_)
Concat(files) ==
    IF files = <<>> THEN <<>>
    ELSE (IF Head(files).readable THEN Head(files).rows ELSE <<>>) \o Concat(Tail(files))

\* the rows of the readable inputs in the order the merge meets them: for
\* the recovery the master file and then the files as found, for the
\* combination the files by modification time
Encountered ==
    IF pc = "recovered" THEN MasterRows \o Concat(progress_files)
    ELSE Concat(SortByMtime(progress_files))

\* C33: the merged list holds each report_id at most once, the record kept
\* for a key is the first one encountered (the master file's record, then
\* the files in processing order), and every key of a readable input file is
\* in the merge.
C33_MergeKeepsFirst ==
    pc \in {"combined", "recovered"} =>
        /\ \A j, k \in 1..Len(merged) :
              merged[j].report_id = merged[k].report_id => j = k
        /\ \A k \in 1..Len(merged) :
              \E p \in 1..Len(Encountered) :
                 /\ Encountered[p] = merged[k]
                 /\ \A q \in 1..(p - 1) : Encountered[q].report_id # merged[k].report_id
        /\ RowIds(Encountered) \subseteq RowIds(merged)

\* the recovery merged a master file and two readable files that share a
\* key, and kept the master file's record of a key and the first file's
\* record of another
C33_Witness ==
    /\ pc = "recovered"
    /\ Len(progress_files) = 2
    /\ progress_files[1].readable /\ progress_files[2].readable
    /\ \E n \in 1..MaxMergeKey :
          /\ ResultRow(n, 0) \in Range(merged)
          /\ ResultRow(n, 1) \in Range(progress_files[1].rows)
    /\ \E n \in 1..MaxMergeKey :
          /\ ResultRow(n, 1) \in Range(merged)
          /\ ResultRow(n, 2) \in Range(progress_files[2].rows)

-----------------------------------------------------------------------------
(* C34 *)

\* C34: over any sequence of flushes and runs of one processor the keys of
\* the ResultRecords in the master file never shrink: every key the file
\* holds before a step is in it after the step, also in a run whose load of
\* the file at startup failed.
C34_StoreNeverShrinks ==
    [][StoredKeys(master_file) \subseteq StoredKeys(master_file')]_vars

-----------------------------------------------------------------------------
(* C35 *)

\* C35: when two processors that share the master file and its temp file run
\* at the same time, no key a process has flushed to the master file is
\* removed from it by a later step, whatever the interleaving of the loads
\* and the flushes of the two.
C35_SharedStoreKeepsFlushed ==
    [][\A p \in DOMAIN procs :
          (procs[p].flushed \cap StoredKeys(master_file)) \subseteq StoredKeys(master_file')]_vars

-----------------------------------------------------------------------------
(* C36 *)

\* the keys of the catalog of Recent400ReportsProcessor
RecentCatalogKeys == {RecentId(n) : n \in 1..total_reports}

\* C36: get_current_status makes the run end with "all reports already
\* processed" exactly when every catalog key has a row in the master file,
\* whatever the file holds (repeated rows, rows of keys outside the catalog).
C36_CompleteIffNothingMissing ==
    [][pc = "r4_status" /\ (pc' = "r4_load" \/ (pc' = "idle" /\ exit_status' = "complete")) =>
          ((pc' = "idle" /\ exit_status' = "complete")
             <=> RecentCatalogKeys \subseteq StoredKeys(master_file))]_vars

-----------------------------------------------------------------------------
(* C37 *)

\* the report ids of the entries of results and failed_reports, in order
CollectedIds ==
    gen_results \o [k \in 1..Len(failed_reports) |-> failed_reports[k].report_id]

\* how many entries a report id has
EntriesOf(id) == Cardinality({k \in 1..Len(CollectedIds) : CollectedIds[k] = id})

\* a step in which the collecting loop takes one finished future
CollectorStep ==
    \E n \in DOMAIN futures :
        /\ futures[n].state = "done"
        /\ futures' = [futures EXCEPT ![n].state = "collected"]

\* C37: when process_reports_concurrent has returned, every catalog row has
\* exactly one entry in results and failed_reports together, in whatever
\* order the workers finished; and the two lists change only in a step of
\* the collecting loop, never in a step of a worker thread.
C37_OneEntryPerRow ==
    /\ [](pc = "idle" /\ exit_status = "returned" =>
            \A n \in 1..total_reports : EntriesOf(ReportId(n)) = 1)
    /\ [][gen_results' # gen_results \/ failed_reports' # failed_reports
            => CollectorStep]_vars

\* returned with rows finished out of submission order, and entries in both lists
C37_Witness ==
    /\ pc = "idle"
    /\ exit_status = "returned"
    /\ Len(gen_results) >= 2
    /\ Len(failed_reports) >= 1
    /\ \E j, k \in 1..Len(gen_results) :
          j < k /\ ParseNumber(gen_results[k]).value < ParseNumber(gen_results[j]).value

=========================================================================
